---- MODULE Spec2Model ----
(***************************************************************************)
(* Healing Clicker: the progression and economy engine.                    *)
(*                                                                         *)
(* Units.  Points are whole points.  Time is in milliseconds (the game     *)
(* loop's dt is clock.tick(FPS) / 1000.0).  Affection is in hundredths     *)
(* (the click gain is 0.01).  Probabilities are in hundredths.  The auto   *)
(* income accumulator is in thousandths of a point (rate * dt_ms).         *)
(***************************************************************************)
EXTENDS Integers, Sequences, FiniteSets, TLC

VARIABLES
    points,                 \* Player.points
    total_points_earned,    \* Player.total_points_earned
    total_clicks,           \* Player.total_clicks
    upgrade_levels,         \* Player.upgrade_levels
    current_id,             \* CharacterManager.current_id
    unlocked,               \* CharacterManager.unlocked (a list)
    affection,              \* CharacterManager.affection
    ach_unlocked,           \* AchievementManager.unlocked (a list)
    notified,               \* AchievementManager.notified (a list)
    first_lucky,            \* AchievementManager.first_lucky
    first_offline,          \* AchievementManager.first_offline
    first_event,            \* AchievementManager.first_event
    current_event,          \* EventManager.current_event
    timer,                  \* EventManager._timer
    next_interval,          \* EventManager._next_interval
    total_completed,        \* EventManager.total_completed
    showing_alert,          \* EventManager.showing_alert
    alert_timer,            \* EventManager._alert_timer
    auto_earn_accumulator,  \* Game.auto_earn_accumulator
    auto_save_timer,        \* Game.auto_save_timer
    save_file,              \* the record in the save file, or NoSave
    raised,                 \* the exception that ended the process, or "none"
    ret                     \* what the last direct call of an operation returned

playerVars == <<points, total_points_earned, total_clicks, upgrade_levels>>
charVars   == <<current_id, unlocked, affection>>
achVars    == <<ach_unlocked, notified, first_lucky, first_offline, first_event>>
eventVars  == <<current_event, timer, next_interval, total_completed,
                showing_alert, alert_timer>>
saveVars   == <<auto_save_timer, save_file>>
vars == <<playerVars, charVars, achVars, eventVars, auto_earn_accumulator,
          saveVars, raised, ret>>

-----------------------------------------------------------------------------
(* Bounds of the model *)

\* Purchases are explored while the sum of all upgrade levels is below this.
MaxUpgrades == 2
\* Income is explored while total_points_earned stays at or below this.
MaxEarned == 640
\* Direct ledger clicks are explored while total_clicks is below this.
MaxClicks == 4
\* The cost and chance formulas are evaluated for levels 0 .. MaxLevel.
MaxLevel == 24
\* Short frames explored at the start of a countdown to the next alert.
MaxShortIdle == 1
\* Events are resolved while total_completed stays at or below this.
MaxCompleted == 1
\* A session starts on a new day only if the daily affection leaves the
\* current character with at most this much affection.
MaxLoginAffection == 2

-----------------------------------------------------------------------------
(* settings.py *)

UpgradeIds == {"click_power", "auto_click", "lucky_bonus", "golden_touch", "fairy_army"}

UPGRADES ==
    [click_power  |-> [base_cost |-> 10,   effect_per_level |-> 1,  max_level |-> -1],
     auto_click   |-> [base_cost |-> 50,   effect_per_level |-> 1,  max_level |-> -1],
     lucky_bonus  |-> [base_cost |-> 200,  effect_per_level |-> 5,  max_level |-> 10],
     golden_touch |-> [base_cost |-> 500,  effect_per_level |-> 5,  max_level |-> -1],
     fairy_army   |-> [base_cost |-> 2000, effect_per_level |-> 10, max_level |-> -1]]

\* "max_level" in upgrade
HasMaxLevel(upgrade_id) == UPGRADES[upgrade_id].max_level >= 0

\* int(base_cost * cost_multiplier ** level) for level 0 .. 30, as CPython
\* evaluates it in IEEE-754 doubles (cost_multiplier 1.15, 1.15, 1.20, 1.18,
\* 1.15).  The double result is below the exact product at fairy_army level 2
\* (2000 * 1.15**2 = 2644.9999999999995), so that entry is 2644, not 2645.
CostTable ==
    [click_power  |-> <<10, 11, 13, 15, 17, 20, 23, 26, 30, 35, 40, 46, 53, 61,
                        70, 81, 93, 107, 123, 142, 163, 188, 216, 248, 286, 329,
                        378, 435, 500, 575, 662>>,
     auto_click   |-> <<50, 57, 66, 76, 87, 100, 115, 133, 152, 175, 202, 232,
                        267, 307, 353, 406, 467, 538, 618, 711, 818, 941, 1082,
                        1244, 1431, 1645, 1892, 2176, 2503, 2878, 3310>>,
     lucky_bonus  |-> <<200, 240, 288, 345, 414, 497, 597, 716, 859, 1031, 1238,
                        1486, 1783, 2139, 2567, 3081, 3697, 4437, 5324, 6389,
                        7667, 9201, 11041, 13249, 15899, 19079, 22895, 27474,
                        32968, 39562, 47475>>,
     golden_touch |-> <<500, 590, 696, 821, 969, 1143, 1349, 1592, 1879, 2217,
                        2616, 3087, 3643, 4299, 5073, 5986, 7064, 8336, 9836,
                        11607, 13696, 16161, 19071, 22503, 26554, 31334, 36974,
                        43629, 51483, 60750, 71685>>,
     fairy_army   |-> <<2000, 2300, 2644, 3041, 3498, 4022, 4626, 5320, 6118,
                        7035, 8091, 9304, 10700, 12305, 14151, 16274, 18715,
                        21522, 24750, 28463, 32733, 37643, 43289, 49782, 57250,
                        65837, 75713, 87070, 100131, 115150, 132423>>]

Min(a, b) == IF a <= b THEN a ELSE b
Max(a, b) == IF a >= b THEN a ELSE b

-----------------------------------------------------------------------------
(* player.py: the formulas, as functions of the level map *)

\* Player.get_click_power
click_power_of(levels) ==
    1 + levels["click_power"] * UPGRADES["click_power"].effect_per_level
      + levels["golden_touch"] * UPGRADES["golden_touch"].effect_per_level

\* Player.get_auto_rate (points per second)
auto_rate_of(levels) ==
    levels["auto_click"] * UPGRADES["auto_click"].effect_per_level
      + levels["fairy_army"] * UPGRADES["fairy_army"].effect_per_level

\* A mutant of lucky_chance_at: the cap is missing.
lucky_chance_uncapped(level) ==
    IF level > 0
    THEN 10 + (level - 1) * UPGRADES["lucky_bonus"].effect_per_level
    ELSE 0

\* Player.get_lucky_chance, in hundredths, at a lucky_bonus level
lucky_chance_at(level) ==
    LET base_chance == IF level > 0
                       THEN 10 + (level - 1) * UPGRADES["lucky_bonus"].effect_per_level
                       ELSE 0
    IN  Min(base_chance, 50)

\* A mutant of upgrade_cost_at: the level is ignored.
upgrade_cost_flat(upgrade_id, level) ==
    IF upgrade_id \notin UpgradeIds THEN 0 ELSE UPGRADES[upgrade_id].base_cost

\* Player.get_upgrade_cost at a level: 0 for an unknown id
upgrade_cost_at(upgrade_id, level) ==
    IF upgrade_id \notin UpgradeIds THEN 0 ELSE CostTable[upgrade_id][level + 1]

get_click_power == click_power_of(upgrade_levels)
get_auto_rate == auto_rate_of(upgrade_levels)
get_lucky_chance == lucky_chance_at(upgrade_levels["lucky_bonus"])
get_upgrade_cost(upgrade_id) ==
    IF upgrade_id \notin UpgradeIds THEN 0
    ELSE upgrade_cost_at(upgrade_id, upgrade_levels[upgrade_id])

-----------------------------------------------------------------------------
(* player.py: the operations, on the ledger record p *)

Ledger == [points |-> points, total_points_earned |-> total_points_earned,
           total_clicks |-> total_clicks, upgrade_levels |-> upgrade_levels]

\* Player.__init__
NewPlayer == [points |-> 0, total_points_earned |-> 0, total_clicks |-> 0,
              upgrade_levels |-> [k \in UpgradeIds |-> 0]]

\* A mutant of can_afford_upgrade: the points are not compared with the cost.
can_afford_ignoring_points(p, upgrade_id) ==
    /\ upgrade_id \in UpgradeIds
    /\ ~(HasMaxLevel(upgrade_id)
         /\ p.upgrade_levels[upgrade_id] >= UPGRADES[upgrade_id].max_level)

\* A mutant of can_afford_upgrade: max_level is not looked at.
can_afford_ignoring_max(p, upgrade_id) ==
    /\ upgrade_id \in UpgradeIds
    /\ p.points >= upgrade_cost_at(upgrade_id, p.upgrade_levels[upgrade_id])

\* Player.can_afford_upgrade
can_afford_upgrade(p, upgrade_id) ==
    /\ upgrade_id \in UpgradeIds
    /\ ~(HasMaxLevel(upgrade_id)
         /\ p.upgrade_levels[upgrade_id] >= UPGRADES[upgrade_id].max_level)
    /\ p.points >= upgrade_cost_at(upgrade_id, p.upgrade_levels[upgrade_id])

\* A mutant of add_points: the lifetime total is not updated.
add_points_spendable_only(p, amount) ==
    [p EXCEPT !.points = @ + amount]

\* Player.add_points
add_points(p, amount) ==
    [p EXCEPT !.points = @ + amount, !.total_points_earned = @ + amount]

\* A mutant of purchase_upgrade: can_afford_upgrade is not re-validated.
purchase_unvalidated(p, upgrade_id) ==
    IF upgrade_id \notin UpgradeIds
    THEN [player |-> p, result |-> FALSE]
    ELSE [player |-> [p EXCEPT
                        !.points = @ - upgrade_cost_at(upgrade_id,
                                                       p.upgrade_levels[upgrade_id]),
                        !.upgrade_levels[upgrade_id] = @ + 1],
          result |-> TRUE]

\* A mutant of purchase_upgrade: the cost is also taken off the lifetime total.
purchase_from_total(p, upgrade_id) ==
    IF ~can_afford_upgrade(p, upgrade_id)
    THEN [player |-> p, result |-> FALSE]
    ELSE LET cost == upgrade_cost_at(upgrade_id, p.upgrade_levels[upgrade_id])
         IN  [player |-> [p EXCEPT !.points = @ - cost,
                                   !.total_points_earned = @ - cost,
                                   !.upgrade_levels[upgrade_id] = @ + 1],
              result |-> TRUE]

\* A mutant of purchase_upgrade: the new level's cost is charged.
purchase_next_cost(p, upgrade_id) ==
    IF ~can_afford_upgrade(p, upgrade_id)
    THEN [player |-> p, result |-> FALSE]
    ELSE [player |-> [p EXCEPT
                        !.points = @ - upgrade_cost_at(upgrade_id,
                                                       p.upgrade_levels[upgrade_id] + 1),
                        !.upgrade_levels[upgrade_id] = @ + 1],
          result |-> TRUE]

\* Player.purchase_upgrade: the ledger after the call and the returned bool
purchase_upgrade(p, upgrade_id) ==
    IF ~can_afford_upgrade(p, upgrade_id)
    THEN [player |-> p, result |-> FALSE]
    ELSE [player |-> [p EXCEPT
                        !.points = @ - upgrade_cost_at(upgrade_id,
                                                       p.upgrade_levels[upgrade_id]),
                        !.upgrade_levels[upgrade_id] = @ + 1],
          result |-> TRUE]

\* Player.click(): the ledger after the call and the returned int.  The
\* method takes no argument besides self; lucky_roll stands for the value of
\* random.random(), in hundredths.
click(p, lucky_roll) ==
    LET power == click_power_of(p.upgrade_levels)
        base_points == IF lucky_roll < lucky_chance_at(p.upgrade_levels["lucky_bonus"])
                       THEN power * 2 ELSE power
    IN  [player |-> [add_points(p, base_points) EXCEPT !.total_clicks = @ + 1],
         result |-> base_points]

SumLevels(levels) ==
    levels["click_power"] + levels["auto_click"] + levels["lucky_bonus"]
      + levels["golden_touch"] + levels["fairy_army"]

-----------------------------------------------------------------------------
(* settings.py: characters, affection, achievements *)

CharacterIds == <<"hana", "mizuki", "kaede", "yuki">>
CharacterSet == {CharacterIds[i] : i \in 1..Len(CharacterIds)}

\* CHARACTERS[cid]["unlock_condition"]; type "none" stands for None
CHARACTERS ==
    [hana   |-> [type |-> "none",         value |-> 0],
     mizuki |-> [type |-> "total_points", value |-> 10000],
     kaede  |-> [type |-> "total_clicks", value |-> 5000],
     yuki   |-> [type |-> "achievements", value |-> 10]]

\* Affection values are held in hundredths: 1.0 is AffUnit.
AffUnit == 100
\* AFFECTION["max"]
MAX_AFFECTION == 100
\* AFFECTION["gains"], in hundredths
GAIN_click == 1
GAIN_upgrade == 50
GAIN_daily_login == 100
GAIN_event_success == 200
\* the literal 3.0 of Game._on_event_finished, in hundredths
GAIN_rainbow_visitor == 300

\* ACHIEVEMENTS, in the order of the dict
ACHIEVEMENTS ==
    << [id |-> "click_10",       type |-> "total_clicks",    value |-> 10,      reward |-> 100],
       [id |-> "click_100",      type |-> "total_clicks",    value |-> 100,     reward |-> 500],
       [id |-> "click_1000",     type |-> "total_clicks",    value |-> 1000,    reward |-> 5000],
       [id |-> "click_10000",    type |-> "total_clicks",    value |-> 10000,   reward |-> 50000],
       [id |-> "points_1000",    type |-> "total_points",    value |-> 1000,    reward |-> 200],
       [id |-> "points_10000",   type |-> "total_points",    value |-> 10000,   reward |-> 2000],
       [id |-> "points_100000",  type |-> "total_points",    value |-> 100000,  reward |-> 20000],
       [id |-> "points_1000000", type |-> "total_points",    value |-> 1000000, reward |-> 200000],
       [id |-> "upgrade_first",  type |-> "total_upgrades",  value |-> 1,       reward |-> 50],
       [id |-> "upgrade_10",     type |-> "total_upgrades",  value |-> 10,      reward |-> 1000],
       [id |-> "upgrade_all",    type |-> "all_upgrades_lv", value |-> 5,       reward |-> 10000],
       [id |-> "affection_20",   type |-> "max_affection",   value |-> 20,      reward |-> 500],
       [id |-> "affection_50",   type |-> "max_affection",   value |-> 50,      reward |-> 5000],
       [id |-> "affection_100",  type |-> "max_affection",   value |-> 100,     reward |-> 50000],
       [id |-> "affection_all",  type |-> "all_affection",   value |-> 50,      reward |-> 100000],
       [id |-> "lucky_hit",      type |-> "first_lucky",     value |-> 1,       reward |-> 300],
       [id |-> "offline_return", type |-> "first_offline",   value |-> 1,       reward |-> 200],
       [id |-> "event_first",    type |-> "first_event",     value |-> 1,       reward |-> 500] >>

SeqToSet(s) == {s[i] : i \in 1..Len(s)}

-----------------------------------------------------------------------------
(* character_manager.py *)

\* dict.get(key, default)
Get(data, key, default) == IF key \in DOMAIN data THEN data[key] ELSE default

\* CharacterManager.__init__
NewAffection == [cid \in CharacterSet |-> 0]

\* CharacterManager.add_affection: the affection map after the call.  cur is
\* current_id; character_id "" stands for None (and, like None, selects cur).
add_affection(aff, cur, amount, character_id) ==
    LET cid == IF character_id = "" THEN cur ELSE character_id
    IN  IF cid \in DOMAIN aff
        THEN [aff EXCEPT ![cid] = Min(MAX_AFFECTION * AffUnit, aff[cid] + amount)]
        ELSE aff

\* CharacterManager.get_affection: 0.0 for an id with no affection entry
get_affection(aff, cur, character_id) ==
    LET cid == IF character_id = "" THEN cur ELSE character_id
    IN  IF cid \in DOMAIN aff THEN aff[cid] ELSE 0

\* AFFECTION["levels"][i]["min"], in affection points
LEVEL_MINS == <<0, 20, 40, 60, 80>>

\* A mutant of affection_level_from: a level needs more than its minimum.
RECURSIVE affection_level_strict(_, _, _)
affection_level_strict(val, i, level) ==
    IF i > Len(LEVEL_MINS) THEN level
    ELSE affection_level_strict(val, i + 1,
            IF val > LEVEL_MINS[i] * AffUnit THEN i - 1 ELSE level)

\* The loop of CharacterManager.get_affection_level from table entry i on
\* (i counts from 1, the returned index from 0), with level found so far
RECURSIVE affection_level_from(_, _, _)
affection_level_from(val, i, level) ==
    IF i > Len(LEVEL_MINS) THEN level
    ELSE affection_level_from(val, i + 1,
            IF val >= LEVEL_MINS[i] * AffUnit THEN i - 1 ELSE level)

\* CharacterManager.get_affection_level
get_affection_level(aff, cur, character_id) ==
    affection_level_from(get_affection(aff, cur, character_id), 1, 0)

RECURSIVE MaxOver(_, _)
MaxOver(aff, S) ==
    IF S = {} THEN 0
    ELSE LET c == CHOOSE x \in S : TRUE
             rest == S \ {c}
         IN  IF rest = {} THEN aff[c] ELSE Max(aff[c], MaxOver(aff, rest))

\* CharacterManager.get_max_affection
get_max_affection(aff) == MaxOver(aff, DOMAIN aff)

\* CharacterManager.all_affection_above; threshold in whole units
all_affection_above(aff, threshold) ==
    \A c \in DOMAIN aff : aff[c] >= threshold * AffUnit

\* A mutant of UnlockHolds: a threshold must be exceeded.
UnlockHoldsAbove(cond, p, achievement_count) ==
    CASE cond.type = "none"         -> TRUE
      [] cond.type = "total_points" -> p.total_points_earned > cond.value
      [] cond.type = "total_clicks" -> p.total_clicks > cond.value
      [] cond.type = "achievements" -> achievement_count > cond.value
      [] OTHER                      -> FALSE

\* One unlock condition of check_unlocks
UnlockHolds(cond, p, achievement_count) ==
    CASE cond.type = "none"         -> TRUE
      [] cond.type = "total_points" -> p.total_points_earned >= cond.value
      [] cond.type = "total_clicks" -> p.total_clicks >= cond.value
      [] cond.type = "achievements" -> achievement_count >= cond.value
      [] OTHER                      -> FALSE

RECURSIVE check_unlocks_from(_, _, _, _)
check_unlocks_from(i, unl, p, achievement_count) ==
    IF i > Len(CharacterIds) THEN unl
    ELSE LET cid == CharacterIds[i]
         IN  IF cid \in SeqToSet(unl)
             THEN check_unlocks_from(i + 1, unl, p, achievement_count)
             ELSE IF UnlockHolds(CHARACTERS[cid], p, achievement_count)
                  THEN check_unlocks_from(i + 1, Append(unl, cid), p, achievement_count)
                  ELSE check_unlocks_from(i + 1, unl, p, achievement_count)

\* CharacterManager.check_unlocks: the unlocked list after the call (the ids
\* returned are the ones appended)
check_unlocks(unl, p, achievement_count) ==
    check_unlocks_from(1, unl, p, achievement_count)

\* A mutant of switch_character: any character of the table can be selected.
switch_character_any(cur, unl, character_id) ==
    IF character_id \in CharacterSet
    THEN [current_id |-> character_id, result |-> TRUE]
    ELSE [current_id |-> cur, result |-> FALSE]

\* CharacterManager.switch_character: the selection after the call and the
\* value returned
switch_character(cur, unl, character_id) ==
    IF character_id \in SeqToSet(unl)
    THEN [current_id |-> character_id, result |-> TRUE]
    ELSE [current_id |-> cur, result |-> FALSE]

\* CharacterManager.to_dict
character_to_dict(cur, unl, aff) ==
    [current_character |-> cur, unlocked |-> unl, affection |-> aff]

\* CharacterManager.from_dict on a new manager
character_from_dict(data) ==
    LET saved_aff == Get(data, "affection", <<>>)
    IN  [current_id |-> Get(data, "current_character", "hana"),
         unlocked |-> Get(data, "unlocked", <<"hana">>),
         affection |-> [cid \in CharacterSet |->
                          IF cid \in DOMAIN saved_aff THEN saved_aff[cid]
                          ELSE NewAffection[cid]]]

-----------------------------------------------------------------------------
(* achievement_manager.py *)

\* AchievementManager._evaluate; flags is [lucky, offline, event]
evaluate(cond, p, aff, flags) ==
    CASE cond.type = "total_clicks"    -> p.total_clicks >= cond.value
      [] cond.type = "total_points"    -> p.total_points_earned >= cond.value
      [] cond.type = "total_upgrades"  -> SumLevels(p.upgrade_levels) >= cond.value
      [] cond.type = "all_upgrades_lv" ->
            \A k \in UpgradeIds : p.upgrade_levels[k] >= cond.value
      [] cond.type = "max_affection"   -> get_max_affection(aff) >= cond.value * AffUnit
      [] cond.type = "all_affection"   -> all_affection_above(aff, cond.value)
      [] cond.type = "first_lucky"     -> flags.lucky
      [] cond.type = "first_offline"   -> flags.offline
      [] cond.type = "first_event"     -> flags.event
      [] OTHER                         -> FALSE

\* A mutant of check_all_from: an achievement already unlocked is evaluated
\* again.
RECURSIVE check_all_unskipped(_, _, _, _, _)
check_all_unskipped(i, unl, p, aff, flags) ==
    IF i > Len(ACHIEVEMENTS) THEN <<>>
    ELSE LET a == ACHIEVEMENTS[i]
         IN  IF evaluate(a, p, aff, flags)
             THEN <<a>> \o check_all_unskipped(i + 1, Append(unl, a.id), p, aff, flags)
             ELSE check_all_unskipped(i + 1, unl, p, aff, flags)

RECURSIVE check_all_from(_, _, _, _, _)
check_all_from(i, unl, p, aff, flags) ==
    IF i > Len(ACHIEVEMENTS) THEN <<>>
    ELSE LET a == ACHIEVEMENTS[i]
         IN  IF a.id \in SeqToSet(unl)
             THEN check_all_from(i + 1, unl, p, aff, flags)
             ELSE IF evaluate(a, p, aff, flags)
                  THEN <<a>> \o check_all_from(i + 1, Append(unl, a.id), p, aff, flags)
                  ELSE check_all_from(i + 1, unl, p, aff, flags)

\* AchievementManager.check_all: the list of newly unlocked achievements, in
\* the order of ACHIEVEMENTS; each is appended to the unlocked list
check_all(unl, p, aff, flags) == check_all_from(1, unl, p, aff, flags)

RECURSIVE SumRewards(_)
SumRewards(newly) ==
    IF newly = <<>> THEN 0 ELSE Head(newly).reward + SumRewards(Tail(newly))

RECURSIVE Ids(_)
Ids(newly) == IF newly = <<>> THEN <<>> ELSE <<Head(newly).id>> \o Ids(Tail(newly))

-----------------------------------------------------------------------------
(* event_manager.py *)

\* EVENT_TEMPLATES (durations in milliseconds)
EVENT_TEMPLATES ==
    << [type |-> "gold_rush",       duration |-> 10000, required |-> 0],
       [type |-> "shooting_star",   duration |-> 15000, required |-> 3],
       [type |-> "flower_field",    duration |-> 20000, required |-> 5],
       [type |-> "rainbow_visitor", duration |-> 10000, required |-> 1] >>

\* EVENT_CONFIG, in milliseconds
MIN_INTERVAL == 600000
MAX_INTERVAL == 1200000
\* the alert's grace period, 5.0 s
ALERT_TIMEOUT == 5000
\* the hit radius of handle_click
HIT_RADIUS == 30
\* the factor of get_click_multiplier during gold_rush
GOLD_RUSH_MULTIPLIER == 5

\* The values random.uniform(min_interval, max_interval) is drawn from here.
Intervals == {MIN_INTERVAL, MAX_INTERVAL}

\* The places random.randint(100, 800) x random.randint(150, 550) puts targets
\* at here: one place, inside the character's rectangle, so that the targets
\* of an event lie within one hit radius of each other.
TargetPlaces == { <<600, 300>> }

\* current_event is None
NoEvent == [event_type |-> "none"]

\* All target lists of length n over TargetPlaces
RECURSIVE TargetLists(_)
TargetLists(n) ==
    IF n = 0 THEN { <<>> }
    ELSE { Append(l, [x |-> pl[1], y |-> pl[2], alive |-> TRUE]) :
             l \in TargetLists(n - 1), pl \in TargetPlaces }

\* RandomEvent.__init__ and EventManager._start_event: the events a start
\* can produce (random.choice of the template, random target places)
NewEvents ==
    UNION { { [event_type |-> t.type, duration |-> t.duration, elapsed |-> 0,
               success |-> FALSE, collected |-> 0, required |-> t.required,
               targets |-> tl] :
              tl \in (IF t.type \in {"shooting_star", "flower_field", "rainbow_visitor"}
                      THEN TargetLists(t.required) ELSE { <<>> }) } :
            t \in SeqToSet(EVENT_TEMPLATES) }

EventMgr == [current_event |-> current_event, timer |-> timer,
             next_interval |-> next_interval, total_completed |-> total_completed,
             showing_alert |-> showing_alert, alert_timer |-> alert_timer]

\* EventManager.__init__; interval is the value of _random_interval()
NewEventMgr(interval) ==
    [current_event |-> NoEvent, timer |-> 0, next_interval |-> interval,
     total_completed |-> 0, showing_alert |-> FALSE, alert_timer |-> 0]

NoResult == [type |-> "none", success |-> FALSE]

\* A mutant of finish_event: one collected target is enough for success.
finish_event_any_collected(em, interval) ==
    LET ev == em.current_event
        success == IF ev.event_type = "gold_rush" THEN TRUE
                   ELSE IF ev.collected >= 1 THEN TRUE
                   ELSE ev.success
    IN  [em |-> [em EXCEPT !.total_completed = IF success THEN @ + 1 ELSE @,
                           !.current_event = NoEvent,
                           !.next_interval = interval,
                           !.timer = 0],
         result |-> [type |-> ev.event_type, success |-> success]]

\* A mutant of finish_event: every resolution is counted.
finish_event_counting_all(em, interval) ==
    LET ev == em.current_event
        success == IF ev.event_type = "gold_rush" THEN TRUE
                   ELSE IF ev.collected >= ev.required THEN TRUE
                   ELSE ev.success
    IN  [em |-> [em EXCEPT !.total_completed = @ + 1,
                           !.current_event = NoEvent,
                           !.next_interval = interval,
                           !.timer = 0],
         result |-> [type |-> ev.event_type, success |-> success]]

\* A mutant of finish_event: the next alert is shown at once.
finish_event_alerting(em, interval) ==
    LET ev == em.current_event
        success == IF ev.event_type = "gold_rush" THEN TRUE
                   ELSE IF ev.collected >= ev.required THEN TRUE
                   ELSE ev.success
    IN  [em |-> [em EXCEPT !.total_completed = IF success THEN @ + 1 ELSE @,
                           !.current_event = NoEvent,
                           !.next_interval = interval,
                           !.timer = 0,
                           !.showing_alert = TRUE],
         result |-> [type |-> ev.event_type, success |-> success]]

\* EventManager._finish_event; interval is the value of _random_interval()
finish_event(em, interval) ==
    LET ev == em.current_event
        success == IF ev.event_type = "gold_rush" THEN TRUE
                   ELSE IF ev.collected >= ev.required THEN TRUE
                   ELSE ev.success
    IN  [em |-> [em EXCEPT !.total_completed = IF success THEN @ + 1 ELSE @,
                           !.current_event = NoEvent,
                           !.next_interval = interval,
                           !.timer = 0],
         result |-> [type |-> ev.event_type, success |-> success]]

\* A mutant of start_event: the alert is shown again as the event starts.
start_event_alerting(em, ev) ==
    [em EXCEPT !.current_event = ev, !.showing_alert = TRUE]

\* EventManager._start_event; ev is the event the random draws produce
start_event(em, ev) == [em EXCEPT !.current_event = ev]

\* A mutant of update: the countdown must pass next_interval, not reach it.
update_past_interval(em, dt, ev, interval) ==
    IF em.current_event # NoEvent
    THEN LET cur == [em.current_event EXCEPT !.elapsed = @ + dt]
             em1 == [em EXCEPT !.current_event = cur]
         IN  IF cur.elapsed >= cur.duration
             THEN finish_event(em1, interval)
             ELSE [em |-> em1, result |-> NoResult]
    ELSE IF em.showing_alert
    THEN LET em1 == [em EXCEPT !.alert_timer = @ + dt]
         IN  IF em1.alert_timer > ALERT_TIMEOUT
             THEN [em |-> start_event([em1 EXCEPT !.showing_alert = FALSE], ev),
                   result |-> NoResult]
             ELSE [em |-> em1, result |-> NoResult]
    ELSE LET em1 == [em EXCEPT !.timer = @ + dt]
         IN  IF em1.timer > em1.next_interval
             THEN [em |-> [em1 EXCEPT !.timer = 0, !.showing_alert = TRUE,
                                      !.alert_timer = 0],
                   result |-> NoResult]
             ELSE [em |-> em1, result |-> NoResult]

\* A mutant of update: an alert waits for the player, its timer stands still.
update_waiting_for_click(em, dt, ev, interval) ==
    IF em.current_event # NoEvent
    THEN LET cur == [em.current_event EXCEPT !.elapsed = @ + dt]
             em1 == [em EXCEPT !.current_event = cur]
         IN  IF cur.elapsed >= cur.duration
             THEN finish_event(em1, interval)
             ELSE [em |-> em1, result |-> NoResult]
    ELSE IF em.showing_alert
    THEN [em |-> em, result |-> NoResult]
    ELSE LET em1 == [em EXCEPT !.timer = @ + dt]
         IN  IF em1.timer >= em1.next_interval
             THEN [em |-> [em1 EXCEPT !.timer = 0, !.showing_alert = TRUE,
                                      !.alert_timer = 0],
                   result |-> NoResult]
             ELSE [em |-> em1, result |-> NoResult]

\* EventManager.update: the manager after the call and the returned result
\* (NoResult for None)
update(em, dt, ev, interval) ==
    IF em.current_event # NoEvent
    THEN LET cur == [em.current_event EXCEPT !.elapsed = @ + dt]
             em1 == [em EXCEPT !.current_event = cur]
         IN  IF cur.elapsed >= cur.duration
             THEN finish_event(em1, interval)
             ELSE [em |-> em1, result |-> NoResult]
    ELSE IF em.showing_alert
    THEN LET em1 == [em EXCEPT !.alert_timer = @ + dt]
         IN  IF em1.alert_timer > ALERT_TIMEOUT
             THEN [em |-> start_event([em1 EXCEPT !.showing_alert = FALSE], ev),
                   result |-> NoResult]
             ELSE [em |-> em1, result |-> NoResult]
    ELSE LET em1 == [em EXCEPT !.timer = @ + dt]
         IN  IF em1.timer >= em1.next_interval
             THEN [em |-> [em1 EXCEPT !.timer = 0, !.showing_alert = TRUE,
                                      !.alert_timer = 0],
                   result |-> NoResult]
             ELSE [em |-> em1, result |-> NoResult]

InRadius(t, pos) ==
    LET dx == pos[1] - t.x
        dy == pos[2] - t.y
    IN  dx * dx + dy * dy < HIT_RADIUS * HIT_RADIUS

\* A mutant of FirstHit: a target within the radius is taken, alive or not.
FirstHitDeadOrAlive(targets, pos) ==
    LET hits == { i \in 1..Len(targets) : InRadius(targets[i], pos) }
    IN  IF hits = {} THEN 0 ELSE CHOOSE i \in hits : \A j \in hits : i <= j

\* A mutant of FirstHit: the last live target within the radius is taken.
LastHit(targets, pos) ==
    LET hits == { i \in 1..Len(targets) : targets[i].alive /\ InRadius(targets[i], pos) }
    IN  IF hits = {} THEN 0 ELSE CHOOSE i \in hits : \A j \in hits : i >= j

\* The index of the first live target within the radius of pos, or 0
FirstHit(targets, pos) ==
    LET hits == { i \in 1..Len(targets) : targets[i].alive /\ InRadius(targets[i], pos) }
    IN  IF hits = {} THEN 0 ELSE CHOOSE i \in hits : \A j \in hits : i <= j

\* A mutant of handle_click: collecting the last required target ends the
\* event.
handle_click_ending(em, pos) ==
    IF em.current_event = NoEvent THEN [em |-> em, result |-> FALSE]
    ELSE IF em.current_event.event_type = "gold_rush" THEN [em |-> em, result |-> FALSE]
    ELSE LET ev == em.current_event
             i == FirstHit(ev.targets, pos)
         IN  IF i = 0 THEN [em |-> em, result |-> FALSE]
             ELSE LET n == ev.collected + 1
                  IN  [em |-> [em EXCEPT !.current_event =
                                  IF n >= ev.required THEN NoEvent
                                  ELSE [ev EXCEPT !.targets[i].alive = FALSE,
                                                  !.collected = n]],
                       result |-> TRUE]

\* EventManager.handle_click: the manager after the call and the returned bool
handle_click(em, pos) ==
    IF em.current_event = NoEvent THEN [em |-> em, result |-> FALSE]
    ELSE IF em.current_event.event_type = "gold_rush" THEN [em |-> em, result |-> FALSE]
    ELSE LET ev == em.current_event
             i == FirstHit(ev.targets, pos)
         IN  IF i = 0 THEN [em |-> em, result |-> FALSE]
             ELSE LET n == ev.collected + 1
                  IN  [em |-> [em EXCEPT !.current_event =
                                  [ev EXCEPT !.targets[i].alive = FALSE,
                                             !.collected = n,
                                             !.success = IF n >= ev.required THEN TRUE ELSE @]],
                       result |-> TRUE]

\* A mutant of dismiss_alert: an event is started whether or not the alert
\* is showing.
dismiss_alert_always(em, ev) == start_event([em EXCEPT !.showing_alert = FALSE], ev)

\* EventManager.dismiss_alert
dismiss_alert(em, ev) ==
    IF em.showing_alert
    THEN start_event([em EXCEPT !.showing_alert = FALSE], ev)
    ELSE em

\* EventManager.is_gold_rush
is_gold_rush(em) ==
    em.current_event # NoEvent /\ em.current_event.event_type = "gold_rush"

\* EventManager.get_click_multiplier
get_click_multiplier(em) ==
    IF is_gold_rush(em) THEN GOLD_RUSH_MULTIPLIER ELSE 1

-----------------------------------------------------------------------------
(* game.py *)

\* CHARACTER["position"] and CHARACTER["size"]: Game.character_rect
CHARACTER_X == 540
CHARACTER_Y == 260
CHARACTER_W == 200
CHARACTER_H == 200

\* character_rect.collidepoint(pos)
InCharacterRect(pos) ==
    /\ CHARACTER_X <= pos[1] /\ pos[1] < CHARACTER_X + CHARACTER_W
    /\ CHARACTER_Y <= pos[2] /\ pos[2] < CHARACTER_Y + CHARACTER_H

\* The frame times dt explored, in milliseconds: a short one (the alert's
\* grace period) and a long one (the shortest interval between events).
DtShort == ALERT_TIMEOUT
DtLong == MIN_INTERVAL
\* While the machine counts down to the next alert, short frames are explored
\* only while the countdown is below MaxShortIdle short frames; long frames
\* are explored always.
DtValues ==
    IF current_event = NoEvent /\ ~showing_alert /\ timer >= MaxShortIdle * DtShort
    THEN { DtLong }
    ELSE { DtShort, DtLong }

\* The places left clicks land on, outside the upgrade panel: within the hit
\* radius of the target place, inside the character's rectangle away from
\* every target, and on empty ground.
ClickPlaces == { <<610, 300>>, <<560, 440>>, <<300, 500>> }

\* The state the managers hold, as one record
Core == [player |-> Ledger, affection |-> affection, current_id |-> current_id,
         unlocked |-> unlocked, ach_unlocked |-> ach_unlocked,
         notified |-> notified,
         flags |-> [lucky |-> first_lucky, offline |-> first_offline,
                    event |-> first_event]]

\* The pass of check_achievements_eager from table entry i on
RECURSIVE check_eager_from(_, _)
check_eager_from(i, g) ==
    IF i > Len(ACHIEVEMENTS) THEN g
    ELSE LET a == ACHIEVEMENTS[i]
         IN  IF a.id \notin SeqToSet(g.ach_unlocked)
                /\ evaluate(a, g.player, g.affection, g.flags)
             THEN check_eager_from(i + 1,
                     [g EXCEPT !.ach_unlocked = Append(@, a.id),
                               !.player = add_points(@, a.reward)])
             ELSE check_eager_from(i + 1, g)

\* A mutant of check_achievements: each reward is added as soon as its
\* achievement is unlocked, before the next condition is evaluated.
check_achievements_eager(g) == check_eager_from(1, g)

\* A mutant of check_achievements: the batch is unlocked without its rewards.
check_achievements_unrewarded(g) ==
    LET newly == check_all(g.ach_unlocked, g.player, g.affection, g.flags)
    IN  [g EXCEPT !.ach_unlocked = @ \o Ids(newly)]

\* Game._check_achievements: one call of check_all, then the reward of every
\* achievement of the returned batch is added
check_achievements(g) ==
    LET newly == check_all(g.ach_unlocked, g.player, g.affection, g.flags)
    IN  [g EXCEPT !.ach_unlocked = @ \o Ids(newly),
                  !.player = add_points(@, SumRewards(newly))]

\* A mutant of EventReward: the rewards of the two target events are swapped.
EventRewardSwapped(ev_type, p) ==
    CASE ev_type = "shooting_star" -> click_power_of(p.upgrade_levels) * 30
      [] ev_type = "flower_field"  -> click_power_of(p.upgrade_levels) * 50
      [] OTHER                     -> 0

\* The points reward of Game._on_event_finished for a successful event
EventReward(ev_type, p) ==
    CASE ev_type = "shooting_star" -> click_power_of(p.upgrade_levels) * 50
      [] ev_type = "flower_field"  -> click_power_of(p.upgrade_levels) * 30
      [] OTHER                     -> 0

\* A mutant of on_event_finished: only a success marks the first event.
on_event_finished_success_only(g, result) ==
    IF result.success
    THEN LET g1 == [g EXCEPT !.flags.event = TRUE]
             aff1 == add_affection(g1.affection, g1.current_id,
                                   GAIN_event_success, "")
             aff2 == IF result.type = "rainbow_visitor"
                     THEN add_affection(aff1, g1.current_id,
                                        GAIN_rainbow_visitor, "")
                     ELSE aff1
             reward == EventReward(result.type, g1.player)
         IN  check_achievements(
               [g1 EXCEPT !.affection = aff2,
                          !.player = IF reward > 0 THEN add_points(@, reward)
                                     ELSE @])
    ELSE check_achievements(g)

\* Game._on_event_finished
on_event_finished(g, result) ==
    LET g1 == [g EXCEPT !.flags.event = TRUE]
        g2 == IF result.success
              THEN LET aff1 == add_affection(g1.affection, g1.current_id,
                                             GAIN_event_success, "")
                       aff2 == IF result.type = "rainbow_visitor"
                               THEN add_affection(aff1, g1.current_id,
                                                  GAIN_rainbow_visitor, "")
                               ELSE aff1
                       reward == EventReward(result.type, g1.player)
                   IN  [g1 EXCEPT !.affection = aff2,
                                  !.player = IF reward > 0 THEN add_points(@, reward)
                                             ELSE @]
              ELSE g1
    IN  check_achievements(g2)

\* A mutant of AutoIncome: what is left of the accumulator is dropped.
AutoIncomeDroppingRest(p, acc, dt) ==
    LET auto_rate == auto_rate_of(p.upgrade_levels)
    IN  IF auto_rate > 0
        THEN LET acc1 == acc + auto_rate * dt
             IN  IF acc1 >= 1000
                 THEN LET earned == acc1 \div 1000
                      IN  [player |-> add_points(p, earned), acc |-> 0]
                 ELSE [player |-> p, acc |-> acc1]
        ELSE [player |-> p, acc |-> acc]

\* The auto income step of Game.update: the accumulator and the ledger after it
AutoIncome(p, acc, dt) ==
    LET auto_rate == auto_rate_of(p.upgrade_levels)
    IN  IF auto_rate > 0
        THEN LET acc1 == acc + auto_rate * dt
             IN  IF acc1 >= 1000
                 THEN LET earned == acc1 \div 1000
                      IN  [player |-> add_points(p, earned), acc |-> acc1 - earned * 1000]
                 ELSE [player |-> p, acc |-> acc1]
        ELSE [player |-> p, acc |-> acc]

\* Assign the managers' state from a record
SetCore(g) ==
    /\ points' = g.player.points
    /\ total_points_earned' = g.player.total_points_earned
    /\ total_clicks' = g.player.total_clicks
    /\ upgrade_levels' = g.player.upgrade_levels
    /\ affection' = g.affection
    /\ current_id' = g.current_id
    /\ unlocked' = g.unlocked
    /\ ach_unlocked' = g.ach_unlocked
    /\ notified' = g.notified
    /\ first_lucky' = g.flags.lucky
    /\ first_offline' = g.flags.offline
    /\ first_event' = g.flags.event

SetEventMgr(em) ==
    /\ current_event' = em.current_event
    /\ timer' = em.timer
    /\ next_interval' = em.next_interval
    /\ total_completed' = em.total_completed
    /\ showing_alert' = em.showing_alert
    /\ alert_timer' = em.alert_timer

Ret(op, ok, n) == [op |-> op, ok |-> ok, n |-> n]

\* settings.AUTO_SAVE_INTERVAL, in milliseconds
AUTO_SAVE_INTERVAL == 30000

\* the longest absence calculate_offline_earnings pays for, in seconds
MAX_OFFLINE_SECONDS == 86400

\* SaveManager.load when there is no save file
NoSave == [exists |-> FALSE]

\* Player.to_dict
player_to_dict(p) ==
    [points |-> p.points, total_points_earned |-> p.total_points_earned,
     total_clicks |-> p.total_clicks, upgrade_levels |-> p.upgrade_levels]

\* A mutant of player_from_dict: every saved level is taken over, whatever
\* its id.
player_from_dict_any_id(data) ==
    LET saved_levels == Get(data, "upgrade_levels", <<>>)
    IN  [points |-> Get(data, "points", 0),
         total_points_earned |-> Get(data, "total_points_earned", 0),
         total_clicks |-> Get(data, "total_clicks", 0),
         upgrade_levels |->
            [key \in UpgradeIds \cup DOMAIN saved_levels |->
                IF key \in DOMAIN saved_levels
                THEN saved_levels[key]
                ELSE NewPlayer.upgrade_levels[key]]]

\* Player.from_dict on a new Player
player_from_dict(data) ==
    LET saved_levels == Get(data, "upgrade_levels", <<>>)
    IN  [points |-> Get(data, "points", 0),
         total_points_earned |-> Get(data, "total_points_earned", 0),
         total_clicks |-> Get(data, "total_clicks", 0),
         upgrade_levels |->
            [key \in UpgradeIds |-> IF key \in DOMAIN saved_levels
                                    THEN saved_levels[key]
                                    ELSE NewPlayer.upgrade_levels[key]]]

\* AchievementManager.to_dict
achievement_to_dict(unl, noti, flags) ==
    [unlocked |-> unl, notified |-> noti,
     first_lucky |-> flags.lucky,
     first_offline |-> flags.offline,
     first_event |-> flags.event]

\* A mutant of achievement_from_dict: the notified list is not read.
achievement_from_dict_unnotified(data) ==
    [ach_unlocked |-> Get(data, "unlocked", <<>>),
     notified |-> <<>>,
     flags |-> [lucky |-> Get(data, "first_lucky", FALSE),
                offline |-> Get(data, "first_offline", FALSE),
                event |-> Get(data, "first_event", FALSE)]]

\* AchievementManager.from_dict on a new AchievementManager
achievement_from_dict(data) ==
    [ach_unlocked |-> Get(data, "unlocked", <<>>),
     notified |-> Get(data, "notified", <<>>),
     flags |-> [lucky |-> Get(data, "first_lucky", FALSE),
                offline |-> Get(data, "first_offline", FALSE),
                event |-> Get(data, "first_event", FALSE)]]

\* EventManager.to_dict
event_to_dict(completed) == [total_events_completed |-> completed]

\* A mutant of event_from_dict: the saved count is not read.
event_from_dict_reset(data) == 0

\* EventManager.from_dict: the completed count a new EventManager takes
event_from_dict(data) == Get(data, "total_events_completed", 0)

\* The record Game._save_game writes through SaveManager.save.  Its
\* last_played and daily_login entries hold the wall-clock time of the save;
\* what a later session derives from them (the seconds away, whether the day
\* has changed) is an input of that session.
save_data(g, em) ==
    [player |-> player_to_dict(g.player),
     characters |-> character_to_dict(g.current_id, g.unlocked, g.affection),
     achievements |-> achievement_to_dict(g.ach_unlocked, g.notified, g.flags),
     events |-> event_to_dict(em.total_completed)]

\* A mutant of calculate_offline_earnings: the absence is not capped.
calculate_offline_uncapped(p, offline_seconds) ==
    (auto_rate_of(p.upgrade_levels) * offline_seconds) \div 2

\* SaveManager.calculate_offline_earnings for a record saved offline_seconds
\* ago (negative when the clock was set back).  The absences drawn are whole
\* even numbers of seconds, for which auto_rate * seconds * 0.5 is whole.
calculate_offline_earnings(p, offline_seconds) ==
    (auto_rate_of(p.upgrade_levels) * Min(offline_seconds, MAX_OFFLINE_SECONDS)) \div 2

\* The "last_played" entry of a record as the loading session reads it: a
\* timestamp datetime.fromisoformat accepts, written seconds_ago before now,
\* or a value it rejects
Timestamp(seconds_ago) == [iso |-> TRUE, seconds_ago |-> seconds_ago]
BadTimestamp == [iso |-> FALSE]

\* SaveManager.calculate_offline_earnings with its except branch: a timestamp
\* that cannot be parsed gives 0.0
offline_earnings_since(p, last_played) ==
    IF last_played.iso
    THEN calculate_offline_earnings(p, last_played.seconds_ago)
    ELSE 0

\* The managers of a new Game before any record is loaded
NewCore ==
    [player |-> NewPlayer, affection |-> NewAffection, current_id |-> "hana",
     unlocked |-> <<"hana">>, ach_unlocked |-> <<>>, notified |-> <<>>,
     flags |-> [lucky |-> FALSE, offline |-> FALSE, event |-> FALSE]]

\* A mutant of load_game: any earnings but zero are granted.
load_game_nonzero(data, last_played, interval) ==
    IF data = NoSave
    THEN [core |-> NewCore, em |-> NewEventMgr(interval)]
    ELSE LET chars == character_from_dict(data.characters)
             achs == achievement_from_dict(data.achievements)
             p == player_from_dict(data.player)
             offline_earnings == offline_earnings_since(p, last_played)
             paid == offline_earnings # 0
         IN  [core |->
                [player |-> IF paid THEN add_points(p, offline_earnings) ELSE p,
                 affection |-> chars.affection,
                 current_id |-> chars.current_id,
                 unlocked |-> chars.unlocked,
                 ach_unlocked |-> achs.ach_unlocked,
                 notified |-> achs.notified,
                 flags |-> [achs.flags EXCEPT !.offline = paid \/ @]],
              em |-> [NewEventMgr(interval) EXCEPT !.total_completed =
                         event_from_dict(data.events)]]

\* Game._load_game: the managers after the record data, whose "last_played"
\* entry reads last_played, is loaded into a new game and the offline earnings
\* are granted
load_game(data, last_played, interval) ==
    IF data = NoSave
    THEN [core |-> NewCore, em |-> NewEventMgr(interval)]
    ELSE LET chars == character_from_dict(data.characters)
             achs == achievement_from_dict(data.achievements)
             p == player_from_dict(data.player)
             offline_earnings == offline_earnings_since(p, last_played)
             paid == offline_earnings > 0
         IN  [core |->
                [player |-> IF paid THEN add_points(p, offline_earnings) ELSE p,
                 affection |-> chars.affection,
                 current_id |-> chars.current_id,
                 unlocked |-> chars.unlocked,
                 ach_unlocked |-> achs.ach_unlocked,
                 notified |-> achs.notified,
                 flags |-> [achs.flags EXCEPT !.offline = paid \/ @]],
              em |-> [NewEventMgr(interval) EXCEPT !.total_completed =
                         event_from_dict(data.events)]]

\* Game.__init__: _load_game, then _check_daily_login, which grants the daily
\* affection when there is no record or the record was saved on another day
new_game(data, offline_seconds, new_day, interval) ==
    LET loaded == load_game(data, Timestamp(offline_seconds), interval)
        g == loaded.core
    IN  [loaded EXCEPT !.core.affection =
            IF data = NoSave \/ new_day
            THEN add_affection(g.affection, g.current_id, GAIN_daily_login, "")
            ELSE @]

\* Game.__init__ with no save file: new managers, then _check_daily_login
\* grants the daily affection (no record, so last_login "" differs from today)
Init ==
    /\ points = 0 /\ total_points_earned = 0 /\ total_clicks = 0
    /\ upgrade_levels = [k \in UpgradeIds |-> 0]
    /\ current_id = "hana"
    /\ unlocked = <<"hana">>
    /\ affection = add_affection(NewAffection, "hana", GAIN_daily_login, "")
    /\ ach_unlocked = <<>>
    /\ notified = <<>>
    /\ first_lucky = FALSE /\ first_offline = FALSE /\ first_event = FALSE
    /\ \E interval \in Intervals :
         /\ current_event = NoEvent /\ timer = 0 /\ next_interval = interval
         /\ total_completed = 0 /\ showing_alert = FALSE /\ alert_timer = 0
    /\ auto_earn_accumulator = 0
    /\ auto_save_timer = 0 /\ save_file = NoSave
    /\ raised = "none"
    /\ ret = Ret("init", FALSE, 0)

\* The ledger, managers and event machine after Game.update(dt)
UpdateResult(dt, ev, interval) ==
    LET inc == AutoIncome(Ledger, auto_earn_accumulator, dt)
        upd == update(EventMgr, dt, ev, interval)
        g1  == [Core EXCEPT !.player = inc.player]
        g2  == IF upd.result # NoResult THEN on_event_finished(g1, upd.result) ELSE g1
    IN  [core |-> [g2 EXCEPT !.unlocked =
                      check_unlocks(@, g2.player, Len(g2.ach_unlocked))],
         em |-> upd.em, acc |-> inc.acc, result |-> upd.result]

\* Game.update(dt): auto income, the event machine (and the resolution of an
\* event that ends in this tick), the character unlocks, the auto save
Tick(dt, ev, interval) ==
    /\ raised = "none"
    /\ \E r \in { UpdateResult(dt, ev, interval) } :
           /\ r.core.player.total_points_earned <= MaxEarned
           /\ r.em.total_completed <= MaxCompleted
           /\ SetCore(r.core)
           /\ SetEventMgr(r.em)
           /\ auto_earn_accumulator' = r.acc
           /\ IF auto_save_timer + dt >= AUTO_SAVE_INTERVAL
              THEN /\ save_file' = save_data(r.core, r.em)
                   /\ auto_save_timer' = 0
              ELSE /\ auto_save_timer' = auto_save_timer + dt
                   /\ UNCHANGED save_file
    /\ UNCHANGED <<raised, ret>>

\* Game._on_character_click.  It calls self.player.click(multiplier) and
\* unpacks two values, but Player.click takes no argument besides self: the
\* call raises TypeError before anything is changed, and neither
\* Game.handle_event nor main() catches it, so the process ends without
\* Game.cleanup: the save file stays what the last auto save left.  (The next
\* start of the program loads that record, as Relaunch does from the state
\* that was saved.)
OnCharacterClick ==
    /\ raised' = "TypeError"
    /\ UNCHANGED <<playerVars, charVars, achVars, eventVars,
                   auto_earn_accumulator, saveVars, ret>>

\* A mutant of ClickAt: a click that dismisses the alert or consumes a target
\* goes on to the character as well (whose handler raises, see
\* OnCharacterClick).
ClickAtThrough(pos, ev) ==
    /\ raised = "none"
    /\ IF showing_alert
       THEN /\ \E em \in { dismiss_alert(EventMgr, ev) } : SetEventMgr(em)
            /\ raised' = IF InCharacterRect(pos) THEN "TypeError" ELSE raised
            /\ UNCHANGED <<playerVars, charVars, achVars, auto_earn_accumulator,
                           saveVars, ret>>
       ELSE LET hit == handle_click(EventMgr, pos)
            IN  IF current_event # NoEvent /\ hit.result
                THEN /\ \E em \in { hit.em } : SetEventMgr(em)
                     /\ raised' = IF InCharacterRect(pos) THEN "TypeError" ELSE raised
                     /\ UNCHANGED <<playerVars, charVars, achVars,
                                    auto_earn_accumulator, saveVars, ret>>
                ELSE IF InCharacterRect(pos)
                THEN OnCharacterClick
                ELSE UNCHANGED vars

\* Game.handle_event for a left click at pos, a place outside the upgrade
\* panel and the header buttons, with no modal panel open
ClickAt(pos, ev) ==
    /\ raised = "none"
    /\ IF showing_alert
       THEN /\ \E em \in { dismiss_alert(EventMgr, ev) } : SetEventMgr(em)
            /\ UNCHANGED <<playerVars, charVars, achVars, auto_earn_accumulator,
                           saveVars, raised, ret>>
       ELSE LET hit == handle_click(EventMgr, pos)
            IN  IF current_event # NoEvent /\ hit.result
                THEN /\ \E em \in { hit.em } : SetEventMgr(em)
                     /\ UNCHANGED <<playerVars, charVars, achVars,
                                    auto_earn_accumulator, saveVars, raised, ret>>
                ELSE IF InCharacterRect(pos)
                THEN OnCharacterClick
                ELSE UNCHANGED vars

\* The ledger and managers after a purchase made through the upgrade panel
PurchaseResult(upgrade_id) ==
    LET bought == purchase_upgrade(Ledger, upgrade_id)
        g1 == [Core EXCEPT !.player = bought.player]
    IN  [core |-> IF bought.result
                  THEN check_achievements(
                         [g1 EXCEPT !.affection =
                             add_affection(@, g1.current_id, GAIN_upgrade, "")])
                  ELSE g1,
         result |-> bought.result]

\* A mutant of ClickUpgradeButton: the panel is served during an event too.
ClickUpgradeButtonAnytime(upgrade_id, ev) ==
    /\ raised = "none"
    /\ IF showing_alert
       THEN /\ \E em \in { dismiss_alert(EventMgr, ev) } : SetEventMgr(em)
            /\ UNCHANGED <<playerVars, charVars, achVars, auto_earn_accumulator,
                           saveVars, raised, ret>>
       ELSE IF can_afford_upgrade(Ledger, upgrade_id)
       THEN \E r \in { PurchaseResult(upgrade_id) } :
                /\ SumLevels(upgrade_levels) < MaxUpgrades
                /\ r.core.player.total_points_earned <= MaxEarned
                /\ SetCore(r.core)
                /\ UNCHANGED <<eventVars, auto_earn_accumulator, saveVars,
                               raised, ret>>
       ELSE UNCHANGED vars

\* Game.handle_event for a left click on the upgrade panel's button of
\* upgrade_id, with no modal panel open
ClickUpgradeButton(upgrade_id, ev) ==
    /\ raised = "none"
    /\ IF showing_alert
       THEN /\ \E em \in { dismiss_alert(EventMgr, ev) } : SetEventMgr(em)
            /\ UNCHANGED <<playerVars, charVars, achVars, auto_earn_accumulator,
                           saveVars, raised, ret>>
       ELSE IF current_event = NoEvent /\ can_afford_upgrade(Ledger, upgrade_id)
       THEN \E r \in { PurchaseResult(upgrade_id) } :
                /\ SumLevels(upgrade_levels) < MaxUpgrades
                /\ r.core.player.total_points_earned <= MaxEarned
                /\ SetCore(r.core)
                /\ UNCHANGED <<eventVars, auto_earn_accumulator, saveVars,
                               raised, ret>>
       ELSE UNCHANGED vars

\* seconds between a save and the next session's load
OfflineSeconds == { -3600, 60 }

\* Assign the state of a game constructed from the record data
StartGame(data, offline_seconds, new_day, interval) ==
    \E r \in { new_game(data, offline_seconds, new_day, interval) } :
        /\ r.core.player.total_points_earned <= MaxEarned
        /\ new_day =>
              r.core.affection[r.core.current_id] <= MaxLoginAffection * AffUnit
        /\ SetCore(r.core)
        /\ SetEventMgr(r.em)
        /\ auto_earn_accumulator' = 0
        /\ auto_save_timer' = 0

\* The window is closed (pygame.QUIT): main() leaves its loop and calls
\* Game.cleanup, which saves; the next start of the program loads that record.
Relaunch(offline_seconds, new_day, interval) ==
    /\ raised = "none"
    /\ \E data \in { save_data(Core, EventMgr) } :
         /\ save_file' = data
         /\ StartGame(data, offline_seconds, new_day, interval)
    /\ UNCHANGED <<raised, ret>>

\* The random draws a call can consume: an event is drawn only by a call that
\* starts one, an interval only by a call that finishes one.  Where a draw is
\* not consumed a single placeholder stands for it.
StartDraws(starts) == IF starts THEN NewEvents ELSE {NoEvent}
FinishDraws(finishes) == IF finishes THEN Intervals ELSE {next_interval}
\* the absence matters only to a load that finds a record with auto income
OfflineDraws(data) ==
    IF data # NoSave /\ auto_rate_of(data.player.upgrade_levels) > 0
    THEN OfflineSeconds ELSE {0}
TickStarts(dt) ==
    current_event = NoEvent /\ showing_alert /\ alert_timer + dt > ALERT_TIMEOUT
TickFinishes(dt) ==
    current_event # NoEvent /\ current_event.elapsed + dt >= current_event.duration

Next ==
    \/ \E dt \in DtValues :
         \E ev \in StartDraws(TickStarts(dt)), interval \in FinishDraws(TickFinishes(dt)) :
            Tick(dt, ev, interval)
    \/ \E pos \in ClickPlaces, ev \in StartDraws(showing_alert) : ClickAt(pos, ev)
    \/ \E upgrade_id \in UpgradeIds, ev \in StartDraws(showing_alert) :
         ClickUpgradeButton(upgrade_id, ev)
    \/ \E offline_seconds \in OfflineDraws(save_data(Core, EventMgr)),
          new_day \in BOOLEAN, interval \in Intervals :
         Relaunch(offline_seconds, new_day, interval)

Spec == Init /\ [][Next]_vars

-----------------------------------------------------------------------------
(* The ledger on its own: the operations of player.py called directly, in   *)
(* any order, on a Player                                                   *)

\* Income of the ledger on its own is explored while total_points_earned
\* stays at or below this.
MaxLedgerEarned == 260

\* The values of random.random() explored, in hundredths
Rolls == { 0, 9, 10, 50, 99 }

\* The amounts add_points is called with here
Amounts == { 10, 200 }

\* The upgrade ids purchase_upgrade is called with: the configured ones and
\* one that is not configured
PurchaseIds == UpgradeIds \cup { "no_such_upgrade" }

RECURSIVE Bought(_, _, _)
\* The ledger after n calls of purchase_upgrade(upgrade_id)
Bought(p, upgrade_id, n) ==
    IF n = 0 THEN p
    ELSE Bought(purchase_upgrade(p, upgrade_id).player, upgrade_id, n - 1)

RECURSIVE CostSum(_, _)
\* The cost of the first n levels of an upgrade
CostSum(upgrade_id, n) ==
    IF n = 0 THEN 0
    ELSE CostSum(upgrade_id, n - 1) + upgrade_cost_at(upgrade_id, n - 1)

\* A player who earned the price of every lucky_bonus level and of one more,
\* and bought lucky_bonus until the purchase was refused
Veteran ==
    LET max == UPGRADES["lucky_bonus"].max_level
    IN  Bought(add_points(NewPlayer, CostSum("lucky_bonus", max + 1)),
               "lucky_bonus", max + 1)

SetLedger(p) ==
    /\ points' = p.points
    /\ total_points_earned' = p.total_points_earned
    /\ total_clicks' = p.total_clicks
    /\ upgrade_levels' = p.upgrade_levels

otherVars == <<charVars, achVars, eventVars, auto_earn_accumulator, saveVars,
               raised>>

InitPlayer ==
    /\ \E p \in { NewPlayer, Veteran } :
         /\ points = p.points
         /\ total_points_earned = p.total_points_earned
         /\ total_clicks = p.total_clicks
         /\ upgrade_levels = p.upgrade_levels
    /\ current_id = "hana" /\ unlocked = <<"hana">> /\ affection = NewAffection
    /\ ach_unlocked = <<>>
    /\ notified = <<>>
    /\ first_lucky = FALSE /\ first_offline = FALSE /\ first_event = FALSE
    /\ current_event = NoEvent /\ timer = 0 /\ next_interval = MIN_INTERVAL
    /\ total_completed = 0 /\ showing_alert = FALSE /\ alert_timer = 0
    /\ auto_earn_accumulator = 0
    /\ auto_save_timer = 0 /\ save_file = NoSave
    /\ raised = "none"
    /\ ret = Ret("init", FALSE, 0)

\* player.click()
PlayerClick(lucky_roll) ==
    /\ total_clicks < MaxClicks
    /\ \E r \in { click(Ledger, lucky_roll) } :
         /\ r.player.total_points_earned <= MaxLedgerEarned
         /\ SetLedger(r.player)
         /\ ret' = Ret("click", FALSE, r.result)
    /\ UNCHANGED otherVars

\* player.purchase_upgrade(upgrade_id)
PlayerPurchase(upgrade_id) ==
    /\ \E r \in { purchase_upgrade(Ledger, upgrade_id) } :
         /\ SetLedger(r.player)
         /\ ret' = Ret("purchase_upgrade", r.result, 0)
    /\ UNCHANGED otherVars

\* player.add_points(amount)
PlayerAddPoints(amount) ==
    /\ \E p \in { add_points(Ledger, amount) } :
         /\ p.total_points_earned <= MaxLedgerEarned
         /\ SetLedger(p)
         /\ ret' = Ret("add_points", FALSE, 0)
    /\ UNCHANGED otherVars

NextPlayer ==
    \/ \E lucky_roll \in Rolls : PlayerClick(lucky_roll)
    \/ \E upgrade_id \in PurchaseIds : PlayerPurchase(upgrade_id)
    \/ \E amount \in Amounts : PlayerAddPoints(amount)

SpecPlayer == InitPlayer /\ [][NextPlayer]_vars

-----------------------------------------------------------------------------
(* The formulas of Player called on a player whose levels were reached by     *)
(* purchases: one upgrade raised to a level in 0..MaxLevel (lucky_bonus up to *)
(* its max_level), the others at 0.                                           *)

\* the highest level upgrade_id is drawn at
TopLevel(upgrade_id) ==
    IF HasMaxLevel(upgrade_id) THEN Min(MaxLevel, UPGRADES[upgrade_id].max_level)
    ELSE MaxLevel

\* upgrade_levels with upgrade_id at level and the other upgrades at 0
Raised(upgrade_id, level) ==
    [NewPlayer.upgrade_levels EXCEPT ![upgrade_id] = level]

InitFormulas ==
    /\ \E upgrade_id \in UpgradeIds : \E level \in 0..TopLevel(upgrade_id) :
         upgrade_levels = Raised(upgrade_id, level)
    /\ points = 0 /\ total_points_earned = 0 /\ total_clicks = 0
    /\ current_id = "hana" /\ unlocked = <<"hana">> /\ affection = NewAffection
    /\ ach_unlocked = <<>>
    /\ notified = <<>>
    /\ first_lucky = FALSE /\ first_offline = FALSE /\ first_event = FALSE
    /\ current_event = NoEvent /\ timer = 0 /\ next_interval = MIN_INTERVAL
    /\ total_completed = 0 /\ showing_alert = FALSE /\ alert_timer = 0
    /\ auto_earn_accumulator = 0
    /\ auto_save_timer = 0 /\ save_file = NoSave
    /\ raised = "none"
    /\ ret = Ret("init", FALSE, 0)

\* player.get_upgrade_cost(upgrade_id); ret.op records the id asked for
GetUpgradeCost(upgrade_id) ==
    /\ ret' = Ret(upgrade_id, FALSE, get_upgrade_cost(upgrade_id))
    /\ UNCHANGED <<playerVars, otherVars>>

\* player.get_lucky_chance(), in hundredths
GetLuckyChance ==
    /\ ret' = Ret("get_lucky_chance", FALSE, get_lucky_chance)
    /\ UNCHANGED <<playerVars, otherVars>>

NextFormulas ==
    \/ \E upgrade_id \in PurchaseIds : GetUpgradeCost(upgrade_id)
    \/ GetLuckyChance

SpecFormulas == InitFormulas /\ [][NextFormulas]_vars

-----------------------------------------------------------------------------
(* CharacterManager.add_affection called directly on a new manager, with      *)
(* amounts of either sign and of more than the whole range.                   *)

\* affection is followed down to -MaxDeficit points
MaxDeficit == 300

\* amounts, in hundredths of an affection point
AffectionAmounts == { -30000, -2000, 4000, 30000 }

\* character_id arguments: None, a character, an id no character has
AffectionTargets == { "", "mizuki", "nobody" }

InitAffection ==
    /\ current_id = "hana" /\ unlocked = <<"hana">> /\ affection = NewAffection
    /\ points = 0 /\ total_points_earned = 0 /\ total_clicks = 0
    /\ upgrade_levels = NewPlayer.upgrade_levels
    /\ ach_unlocked = <<>>
    /\ notified = <<>>
    /\ first_lucky = FALSE /\ first_offline = FALSE /\ first_event = FALSE
    /\ current_event = NoEvent /\ timer = 0 /\ next_interval = MIN_INTERVAL
    /\ total_completed = 0 /\ showing_alert = FALSE /\ alert_timer = 0
    /\ auto_earn_accumulator = 0
    /\ auto_save_timer = 0 /\ save_file = NoSave
    /\ raised = "none"
    /\ ret = Ret("init", FALSE, 0)

\* character_manager.add_affection(amount, character_id)
AddAffection(amount, character_id) ==
    /\ \E aff \in { add_affection(affection, current_id, amount, character_id) } :
         /\ \A cid \in CharacterSet : aff[cid] >= -(MaxDeficit * AffUnit)
         /\ affection' = aff
    /\ ret' = Ret("add_affection", FALSE, 0)
    /\ UNCHANGED <<playerVars, current_id, unlocked, achVars, eventVars,
                   auto_earn_accumulator, saveVars, raised>>

NextAffection ==
    \E amount \in AffectionAmounts, character_id \in AffectionTargets :
        AddAffection(amount, character_id)

SpecAffection == InitAffection /\ [][NextAffection]_vars

-----------------------------------------------------------------------------
(* CharacterManager.get_affection_level asked of a manager whose current      *)
(* character holds an affection drawn from [0, 100].                          *)

\* affection values are drawn at every multiple of this many hundredths
ProbeStep == 50

\* the drawn affection values: the multiples of ProbeStep, and each level
\* minimum with its two neighbours
LevelProbes ==
    { val \in 0..(MAX_AFFECTION * AffUnit) :
        \/ val % ProbeStep = 0
        \/ \E i \in 1..Len(LEVEL_MINS) :
              val \in { LEVEL_MINS[i] * AffUnit - 1, LEVEL_MINS[i] * AffUnit,
                        LEVEL_MINS[i] * AffUnit + 1 } }

\* character_id arguments: None, the current character, another, an unknown id
LevelTargets == { "", "hana", "mizuki", "nobody" }

InitLevels ==
    /\ \E val \in LevelProbes : affection = [NewAffection EXCEPT !["hana"] = val]
    /\ current_id = "hana" /\ unlocked = <<"hana">>
    /\ points = 0 /\ total_points_earned = 0 /\ total_clicks = 0
    /\ upgrade_levels = NewPlayer.upgrade_levels
    /\ ach_unlocked = <<>>
    /\ notified = <<>>
    /\ first_lucky = FALSE /\ first_offline = FALSE /\ first_event = FALSE
    /\ current_event = NoEvent /\ timer = 0 /\ next_interval = MIN_INTERVAL
    /\ total_completed = 0 /\ showing_alert = FALSE /\ alert_timer = 0
    /\ auto_earn_accumulator = 0
    /\ auto_save_timer = 0 /\ save_file = NoSave
    /\ raised = "none"
    /\ ret = Ret("init", FALSE, 0)

\* character_manager.get_affection_level(character_id); ret.op records the
\* argument
GetAffectionLevel(character_id) ==
    /\ ret' = Ret(character_id, FALSE,
                  get_affection_level(affection, current_id, character_id))
    /\ UNCHANGED <<playerVars, otherVars>>

NextLevels == \E character_id \in LevelTargets : GetAffectionLevel(character_id)

SpecLevels == InitLevels /\ [][NextLevels]_vars

-----------------------------------------------------------------------------
(* CharacterManager called directly: switch_character, check_unlocks with a   *)
(* player whose totals stand just below the unlock thresholds, add_affection, *)
(* and from_dict of a record into a new manager.  The records are the ones    *)
(* to_dict writes, whole or with keys missing (from_dict reads each key with  *)
(* its own default).                                                          *)

\* the player's totals are drawn from this far below an unlock threshold
MaxShortfall == 1

\* the values a total is drawn from: nothing yet, or from MaxShortfall below
\* the threshold of character cid up to the threshold
TotalsNear(cid) ==
    { 0 } \cup ((CHARACTERS[cid].value - MaxShortfall)..CHARACTERS[cid].value)

\* the players the manager is checked against (a click earns at least one
\* point, so no player has more clicks than points earned)
CharacterLedgers ==
    { [NewPlayer EXCEPT !.points = e, !.total_points_earned = e,
                        !.total_clicks = c] :
        <<e, c>> \in { t \in TotalsNear("mizuki") \X TotalsNear("kaede") :
                         t[2] <= t[1] } }

\* achievement_count arguments of check_unlocks
AchievementCounts ==
    { 0, CHARACTERS["yuki"].value - 1, CHARACTERS["yuki"].value }

\* character_id arguments of switch_character: every character and an id no
\* character has
SwitchTargets == CharacterSet \cup { "nobody" }

\* the keys of the record CharacterManager.to_dict writes
RecordKeys == { "current_character", "unlocked", "affection" }

\* amounts of add_affection, in hundredths of an affection point
CharacterGains == { 6000 }

\* what a call returned when it returns a list of ids
RetIds(op, ids) == [op |-> op, ok |-> FALSE, n |-> Len(ids), ids |-> ids]

InitCharacters ==
    /\ current_id = "hana" /\ unlocked = <<"hana">> /\ affection = NewAffection
    /\ \E p \in CharacterLedgers :
         /\ points = p.points /\ total_points_earned = p.total_points_earned
         /\ total_clicks = p.total_clicks /\ upgrade_levels = p.upgrade_levels
    /\ ach_unlocked = <<>>
    /\ notified = <<>>
    /\ first_lucky = FALSE /\ first_offline = FALSE /\ first_event = FALSE
    /\ current_event = NoEvent /\ timer = 0 /\ next_interval = MIN_INTERVAL
    /\ total_completed = 0 /\ showing_alert = FALSE /\ alert_timer = 0
    /\ auto_earn_accumulator = 0
    /\ auto_save_timer = 0 /\ save_file = NoSave
    /\ raised = "none"
    /\ ret = Ret("init", FALSE, 0)

restVars == <<achVars, eventVars, auto_earn_accumulator, saveVars, raised>>

\* character_manager.switch_character(character_id)
SwitchCharacter(character_id) ==
    /\ \E r \in { switch_character(current_id, unlocked, character_id) } :
         /\ current_id' = r.current_id
         /\ ret' = Ret("switch_character", r.result, 0)
    /\ UNCHANGED <<playerVars, unlocked, affection, restVars>>

\* character_manager.check_unlocks(player, achievement_count); ret.ids is the
\* list returned
CheckUnlocks(achievement_count) ==
    /\ \E unl \in { check_unlocks(unlocked, Ledger, achievement_count) } :
         /\ unlocked' = unl
         /\ ret' = RetIds("check_unlocks",
                          SubSeq(unl, Len(unlocked) + 1, Len(unl)))
    /\ UNCHANGED <<playerVars, current_id, affection, restVars>>

\* The player the manager is checked against plays on between two calls:
\* Player.click and Player.add_points only raise total_points_earned and
\* total_clicks, so the player moves to a ledger of CharacterLedgers with no
\* lower totals.
CharacterPlayerEarns(p) ==
    /\ p # Ledger
    /\ p.total_points_earned >= total_points_earned
    /\ p.total_clicks >= total_clicks
    /\ SetLedger(p)
    /\ ret' = Ret("add_points", FALSE, 0)
    /\ UNCHANGED <<charVars, restVars>>

\* character_manager.add_affection(amount) for the current character
CharacterAddAffection(amount) ==
    /\ affection' = add_affection(affection, current_id, amount, "")
    /\ ret' = Ret("add_affection", FALSE, 0)
    /\ UNCHANGED <<playerVars, current_id, unlocked, restVars>>

\* The record to_dict writes, with only the keys in keys
RecordWith(keys) ==
    LET data == character_to_dict(current_id, unlocked, affection)
    IN  [key \in keys |-> data[key]]

\* A new CharacterManager and from_dict(data) on it, data being the record of
\* the present manager with the keys in keys
LoadCharacters(keys) ==
    /\ \E m \in { character_from_dict(RecordWith(keys)) } :
         /\ current_id' = m.current_id
         /\ unlocked' = m.unlocked
         /\ affection' = m.affection
    /\ ret' = Ret("from_dict", FALSE, Cardinality(keys))
    /\ UNCHANGED <<playerVars, restVars>>

NextCharacters ==
    \/ \E character_id \in SwitchTargets : SwitchCharacter(character_id)
    \/ \E achievement_count \in AchievementCounts : CheckUnlocks(achievement_count)
    \/ \E p \in CharacterLedgers : CharacterPlayerEarns(p)
    \/ \E amount \in CharacterGains : CharacterAddAffection(amount)
    \/ \E keys \in SUBSET RecordKeys : LoadCharacters(keys)

SpecCharacters == InitCharacters /\ [][NextCharacters]_vars

-----------------------------------------------------------------------------
(* AchievementManager called directly: check_all against a player and a      *)
(* character manager that move on between the calls, and the three mark_     *)
(* calls.                                                                    *)

\* the level maps of the players: nothing bought, one level of click_power
AchievementLevels ==
    { NewPlayer.upgrade_levels,
      [NewPlayer.upgrade_levels EXCEPT !["click_power"] = 1] }

\* the click totals of the players: none yet, or from MaxShortfall below the
\* value of click_10 up to that value
ClickTotals ==
    { 0 } \cup ((ACHIEVEMENTS[1].value - MaxShortfall)..ACHIEVEMENTS[1].value)

\* the players check_all is called with: each click has earned one point
AchievementLedgers ==
    { [points |-> c, total_points_earned |-> c, total_clicks |-> c,
       upgrade_levels |-> levels] :
        c \in ClickTotals, levels \in AchievementLevels }

\* amounts of add_affection, in hundredths of an affection point
AchievementGains == { 5000 }

InitAchievements ==
    /\ ach_unlocked = <<>>
    /\ notified = <<>>
    /\ first_lucky = FALSE /\ first_offline = FALSE /\ first_event = FALSE
    /\ \E p \in AchievementLedgers :
         /\ points = p.points /\ total_points_earned = p.total_points_earned
         /\ total_clicks = p.total_clicks /\ upgrade_levels = p.upgrade_levels
    /\ current_id = "hana" /\ unlocked = <<"hana">> /\ affection = NewAffection
    /\ current_event = NoEvent /\ timer = 0 /\ next_interval = MIN_INTERVAL
    /\ total_completed = 0 /\ showing_alert = FALSE /\ alert_timer = 0
    /\ auto_earn_accumulator = 0
    /\ auto_save_timer = 0 /\ save_file = NoSave
    /\ raised = "none"
    /\ ret = Ret("init", FALSE, 0)

idleVars == <<eventVars, auto_earn_accumulator, saveVars, raised>>

\* achievement_mgr.check_all(player, char_mgr); ret.ids holds the ids of the
\* achievements returned
CheckAll ==
    /\ \E newly \in { check_all(ach_unlocked, Ledger, affection,
                                 [lucky |-> first_lucky, offline |-> first_offline,
                                  event |-> first_event]) } :
         /\ ach_unlocked' = ach_unlocked \o Ids(newly)
         /\ ret' = RetIds("check_all", Ids(newly))
    /\ UNCHANGED <<playerVars, charVars, notified, first_lucky, first_offline,
                   first_event, idleVars>>

\* achievement_mgr.mark_lucky(), mark_offline(), mark_event()
Mark(flag) ==
    /\ first_lucky' = (first_lucky \/ flag = "lucky")
    /\ first_offline' = (first_offline \/ flag = "offline")
    /\ first_event' = (first_event \/ flag = "event")
    /\ ret' = Ret("mark", FALSE, 0)
    /\ UNCHANGED <<playerVars, charVars, ach_unlocked, notified, idleVars>>

\* The player plays on between two calls: clicks, earnings and purchases only
\* raise the totals and the levels, so the player moves to a ledger of
\* AchievementLedgers with no lower total and no lower level.
AchievementPlayerEarns(p) ==
    /\ p # Ledger
    /\ p.total_points_earned >= total_points_earned
    /\ p.total_clicks >= total_clicks
    /\ \A k \in UpgradeIds : p.upgrade_levels[k] >= upgrade_levels[k]
    /\ SetLedger(p)
    /\ ret' = Ret("add_points", FALSE, 0)
    /\ UNCHANGED <<charVars, achVars, idleVars>>

\* character_manager.add_affection(amount) between two calls
AchievementAddAffection(amount) ==
    /\ affection' = add_affection(affection, current_id, amount, "")
    /\ affection' # affection
    /\ ret' = Ret("add_affection", FALSE, 0)
    /\ UNCHANGED <<playerVars, current_id, unlocked, achVars, idleVars>>

NextAchievements ==
    \/ CheckAll
    \/ \E flag \in { "lucky", "offline", "event" } : Mark(flag)
    \/ \E p \in AchievementLedgers : AchievementPlayerEarns(p)
    \/ \E amount \in AchievementGains : AchievementAddAffection(amount)

SpecAchievements == InitAchievements /\ [][NextAchievements]_vars

-----------------------------------------------------------------------------
(* EventManager called directly: update with time steps that reach and pass  *)
(* its thresholds, handle_click, and dismiss_alert in every state.           *)

\* the time steps of update, in milliseconds: half the alert timeout, the
\* alert timeout, half the shortest interval
EventDts == { ALERT_TIMEOUT \div 2, ALERT_TIMEOUT, MIN_INTERVAL \div 2 }

InitEvents ==
    /\ \E interval \in Intervals :
         /\ current_event = NoEvent /\ timer = 0 /\ next_interval = interval
         /\ total_completed = 0 /\ showing_alert = FALSE /\ alert_timer = 0
    /\ points = 0 /\ total_points_earned = 0 /\ total_clicks = 0
    /\ upgrade_levels = NewPlayer.upgrade_levels
    /\ current_id = "hana" /\ unlocked = <<"hana">> /\ affection = NewAffection
    /\ ach_unlocked = <<>>
    /\ notified = <<>>
    /\ first_lucky = FALSE /\ first_offline = FALSE /\ first_event = FALSE
    /\ auto_earn_accumulator = 0
    /\ auto_save_timer = 0 /\ save_file = NoSave
    /\ raised = "none"
    /\ ret = Ret("init", FALSE, 0)

stillVars == <<playerVars, charVars, achVars, auto_earn_accumulator, saveVars,
               raised>>

\* event_manager.update(dt); ret.n is 1 when a result is returned, 0 for
\* None, and ret.ok is the result's "success"
EventUpdate(dt, ev, interval) ==
    /\ \E r \in { update(EventMgr, dt, ev, interval) } :
         /\ r.em.total_completed <= MaxCompleted
         /\ SetEventMgr(r.em)
         /\ ret' = Ret("update", r.result.success,
                       IF r.result = NoResult THEN 0 ELSE 1)
    /\ UNCHANGED stillVars

\* event_manager.handle_click(pos)
EventHandleClick(pos) ==
    /\ \E r \in { handle_click(EventMgr, pos) } :
         /\ SetEventMgr(r.em)
         /\ ret' = Ret("handle_click", r.result, 0)
    /\ UNCHANGED stillVars

\* event_manager.dismiss_alert()
EventDismissAlert(ev) ==
    /\ \E em \in { dismiss_alert(EventMgr, ev) } : SetEventMgr(em)
    /\ ret' = Ret("dismiss_alert", FALSE, 0)
    /\ UNCHANGED stillVars

NextEvents ==
    \/ \E dt \in EventDts :
         \E ev \in StartDraws(TickStarts(dt)), interval \in FinishDraws(TickFinishes(dt)) :
            EventUpdate(dt, ev, interval)
    \/ \E pos \in ClickPlaces : EventHandleClick(pos)
    \/ \E ev \in StartDraws(showing_alert) : EventDismissAlert(ev)

SpecEvents == InitEvents /\ [][NextEvents]_vars

\* a frame of the game loop as the event manager sees it: update(dt) with
\* some positive dt
EventTick ==
    \E dt \in EventDts :
       \E ev \in StartDraws(TickStarts(dt)), interval \in FinishDraws(TickFinishes(dt)) :
          EventUpdate(dt, ev, interval)

\* The same calls when the game loop keeps running: update is called again
\* and again, while clicks may or may not come
SpecEventsLive == InitEvents /\ [][NextEvents]_vars /\ WF_vars(EventTick)

-----------------------------------------------------------------------------
(* EventManager.handle_click called on events whose targets lie at several   *)
(* places, some within one hit radius of each other, and on a manager with   *)
(* no event.                                                                 *)

\* the places of the targets: two within a radius of each other, one apart
SpreadPlaces == { <<600, 300>>, <<620, 300>>, <<700, 300>> }

\* All target lists of length n over SpreadPlaces
RECURSIVE SpreadLists(_)
SpreadLists(n) ==
    IF n = 0 THEN { <<>> }
    ELSE { Append(l, [x |-> pl[1], y |-> pl[2], alive |-> TRUE]) :
             l \in SpreadLists(n - 1), pl \in SpreadPlaces }

\* the events EventManager._start_event can produce with these places
SpreadEvents ==
    UNION { { [event_type |-> t.type, duration |-> t.duration, elapsed |-> 0,
               success |-> FALSE, collected |-> 0, required |-> t.required,
               targets |-> tl] :
              tl \in (IF t.type \in {"shooting_star", "flower_field", "rainbow_visitor"}
                      THEN SpreadLists(t.required) ELSE { <<>> }) } :
            t \in SeqToSet(EVENT_TEMPLATES) }

\* the click points: within the radius of the first two places, at exactly
\* the radius from the first and within that of the second, within that of
\* the third only, and far from all
SpreadClicks == { <<610, 300>>, <<630, 300>>, <<700, 320>>, <<300, 500>> }

InitClicks ==
    /\ \E ev \in SpreadEvents \cup { NoEvent } : current_event = ev
    /\ timer = 0 /\ next_interval = MIN_INTERVAL
    /\ total_completed = 0 /\ showing_alert = FALSE /\ alert_timer = 0
    /\ points = 0 /\ total_points_earned = 0 /\ total_clicks = 0
    /\ upgrade_levels = NewPlayer.upgrade_levels
    /\ current_id = "hana" /\ unlocked = <<"hana">> /\ affection = NewAffection
    /\ ach_unlocked = <<>>
    /\ notified = <<>>
    /\ first_lucky = FALSE /\ first_offline = FALSE /\ first_event = FALSE
    /\ auto_earn_accumulator = 0
    /\ auto_save_timer = 0 /\ save_file = NoSave
    /\ raised = "none"
    /\ ret = Ret("init", FALSE, 0)

NextClicks == \E pos \in SpreadClicks : EventHandleClick(pos)

SpecClicks == InitClicks /\ [][NextClicks]_vars

-----------------------------------------------------------------------------
(* SaveManager.calculate_offline_earnings called for players with several    *)
(* auto rates and for absences of up to thirty hours.                        *)

\* the longest absence drawn, in hours
MaxHoursAway == 30

\* the absences, in seconds: the clock set back, none, every whole hour, and
\* the two even seconds next to the cap
OfflineGaps ==
    { -3600, 0, MAX_OFFLINE_SECONDS - 2, MAX_OFFLINE_SECONDS + 2 }
      \cup { h * 3600 : h \in 1..MaxHoursAway }

\* the level maps of the players: auto_click and fairy_army bought or not
OfflineLevels ==
    { [NewPlayer.upgrade_levels EXCEPT !["auto_click"] = a, !["fairy_army"] = f] :
        a \in 0..2, f \in 0..1 }

InitOffline ==
    /\ \E levels \in OfflineLevels : upgrade_levels = levels
    /\ points = 0 /\ total_points_earned = 0 /\ total_clicks = 0
    /\ current_id = "hana" /\ unlocked = <<"hana">> /\ affection = NewAffection
    /\ ach_unlocked = <<>>
    /\ notified = <<>>
    /\ first_lucky = FALSE /\ first_offline = FALSE /\ first_event = FALSE
    /\ current_event = NoEvent /\ timer = 0 /\ next_interval = MIN_INTERVAL
    /\ total_completed = 0 /\ showing_alert = FALSE /\ alert_timer = 0
    /\ auto_earn_accumulator = 0
    /\ auto_save_timer = 0 /\ save_file = NoSave
    /\ raised = "none"
    /\ ret = Ret("init", FALSE, 0)

\* save_manager.calculate_offline_earnings(player, last_played) called
\* offline_seconds after last_played; ret.seconds records the absence
CalculateOfflineEarnings(offline_seconds) ==
    /\ ret' = [op |-> "offline", ok |-> FALSE,
               n |-> calculate_offline_earnings(Ledger, offline_seconds),
               seconds |-> offline_seconds]
    /\ UNCHANGED <<playerVars, otherVars>>

NextOffline ==
    \E offline_seconds \in OfflineGaps : CalculateOfflineEarnings(offline_seconds)

SpecOffline == InitOffline /\ [][NextOffline]_vars

-----------------------------------------------------------------------------
(* Game._load_game on the record of a game whose player has auto income or   *)
(* none, with a last_played entry in the past, now, in the future, or not a  *)
(* timestamp                                                                 *)

\* Loads are explored while the player holds at most this many points.
MaxLoadPoints == 800

\* what the player paid to bring upgrade_id to level
RECURSIVE PaidUpTo(_, _)
PaidUpTo(upgrade_id, level) ==
    IF level = 0 THEN 0
    ELSE CostTable[upgrade_id][level] + PaidUpTo(upgrade_id, level - 1)

\* the "last_played" entries: an hour ahead of the clock, the present
\* moment, one and two minutes ago, and a value that is no timestamp
LoadStamps == { Timestamp(s) : s \in { -3600, 0, 60, 120 } } \cup { BadTimestamp }

\* a game whose player has spent all points earned on auto_click and
\* fairy_army levels
InitLoad ==
    /\ \E levels \in OfflineLevels :
         /\ upgrade_levels = levels
         /\ total_points_earned = PaidUpTo("auto_click", levels["auto_click"])
                                    + PaidUpTo("fairy_army", levels["fairy_army"])
    /\ points = 0 /\ total_clicks = 0
    /\ current_id = "hana" /\ unlocked = <<"hana">> /\ affection = NewAffection
    /\ ach_unlocked = <<>>
    /\ notified = <<>>
    /\ first_lucky = FALSE /\ first_offline = FALSE /\ first_event = FALSE
    /\ current_event = NoEvent /\ timer = 0 /\ next_interval = MIN_INTERVAL
    /\ total_completed = 0 /\ showing_alert = FALSE /\ alert_timer = 0
    /\ auto_earn_accumulator = 0
    /\ auto_save_timer = 0 /\ save_file = NoSave
    /\ raised = "none"
    /\ ret = Ret("init", FALSE, 0)

\* The record of the present game is written, and a new Game runs _load_game
\* on it, reading last_played from its "last_played" entry; ret.last_played
\* records what was read
LoadGame(last_played, interval) ==
    /\ \E data \in { save_data(Core, EventMgr) } :
         /\ save_file' = data
         /\ \E r \in { load_game(data, last_played, interval) } :
              /\ r.core.player.points <= MaxLoadPoints
              /\ SetCore(r.core)
              /\ SetEventMgr(r.em)
    /\ auto_earn_accumulator' = 0
    /\ auto_save_timer' = 0
    /\ ret' = [op |-> "load", ok |-> FALSE, n |-> 0, last_played |-> last_played]
    /\ UNCHANGED raised

NextLoad ==
    \E last_played \in LoadStamps, interval \in { MIN_INTERVAL } :
        LoadGame(last_played, interval)

SpecLoad == InitLoad /\ [][NextLoad]_vars

-----------------------------------------------------------------------------
(* to_dict of the four managers, and from_dict of the result on new          *)
(* managers, for a range of games                                            *)

\* a new player, and one who earned 143 points, clicked three times and
\* bought two levels of auto_click
RecordLedgers ==
    { NewPlayer,
      [points |-> 143 - PaidUpTo("auto_click", 2), total_points_earned |-> 143,
       total_clicks |-> 3,
       upgrade_levels |-> [NewPlayer.upgrade_levels EXCEPT !["auto_click"] = 2]] }

\* current character and unlocked list
RecordCasts ==
    { [current_id |-> "hana", unlocked |-> <<"hana">>],
      [current_id |-> "hana", unlocked |-> <<"hana", "yuki">>],
      [current_id |-> "yuki", unlocked |-> <<"hana", "yuki">>] }

RecordAffections == { NewAffection, [NewAffection EXCEPT !["hana"] = 250] }

\* lists of achievement ids, for unlocked and for notified
RecordIdLists == { <<>>, <<"click_10">> }

InitRecords ==
    /\ \E p \in RecordLedgers :
         /\ points = p.points /\ total_points_earned = p.total_points_earned
         /\ total_clicks = p.total_clicks /\ upgrade_levels = p.upgrade_levels
    /\ \E c \in RecordCasts : current_id = c.current_id /\ unlocked = c.unlocked
    /\ affection \in RecordAffections
    /\ ach_unlocked \in RecordIdLists
    /\ notified \in RecordIdLists
    /\ first_lucky \in BOOLEAN /\ first_offline \in BOOLEAN /\ first_event \in BOOLEAN
    /\ current_event = NoEvent /\ timer = 0 /\ next_interval = MIN_INTERVAL
    /\ total_completed \in 0..MaxCompleted
    /\ showing_alert = FALSE /\ alert_timer = 0
    /\ auto_earn_accumulator = 0
    /\ auto_save_timer = 0 /\ save_file = NoSave
    /\ raised = "none"
    /\ ret = Ret("init", FALSE, 0)

\* to_dict() of the player and the three managers, then from_dict on a new
\* player and new managers, which replace the old ones; ret.data holds the
\* sections written
RoundTrip ==
    /\ \E data \in { save_data(Core, EventMgr) } :
         /\ \E chars \in { character_from_dict(data.characters) },
               achs \in { achievement_from_dict(data.achievements) } :
              SetCore([player |-> player_from_dict(data.player),
                       affection |-> chars.affection,
                       current_id |-> chars.current_id,
                       unlocked |-> chars.unlocked,
                       ach_unlocked |-> achs.ach_unlocked,
                       notified |-> achs.notified,
                       flags |-> achs.flags])
         /\ SetEventMgr([NewEventMgr(next_interval) EXCEPT !.total_completed =
                            event_from_dict(data.events)])
         /\ ret' = [op |-> "round_trip", ok |-> FALSE, n |-> 0, data |-> data]
    /\ UNCHANGED <<auto_earn_accumulator, saveVars, raised>>

NextRecords == RoundTrip

SpecRecords == InitRecords /\ [][NextRecords]_vars

-----------------------------------------------------------------------------
(* Player.from_dict on a new Player, for records that lack keys and records  *)
(* that name upgrades the configuration does not have                        *)

\* the ids a saved level map may hold: two configured ids and one that
\* settings.UPGRADES does not have
SavedIds == { "click_power", "auto_click", "mystery_boost" }

\* the highest level a saved level map holds
MaxSavedLevel == 2

\* the saved level maps: every map from some of SavedIds to a level
SavedLevelMaps == UNION { [ids -> 1..MaxSavedLevel] : ids \in SUBSET SavedIds }

\* a whole player record, of which a loaded record keeps some keys
WholePlayerRecord(saved_levels) ==
    [points |-> 25, total_points_earned |-> 40, total_clicks |-> 3,
     upgrade_levels |-> saved_levels]

PlayerRecordKeys == DOMAIN WholePlayerRecord(<<>>)

PlayerRecords ==
    { [key \in keys |-> WholePlayerRecord(saved_levels)[key]] :
        keys \in SUBSET PlayerRecordKeys, saved_levels \in SavedLevelMaps }

InitPlayerRecords ==
    /\ points = 0 /\ total_points_earned = 0 /\ total_clicks = 0
    /\ upgrade_levels = NewPlayer.upgrade_levels
    /\ current_id = "hana" /\ unlocked = <<"hana">> /\ affection = NewAffection
    /\ ach_unlocked = <<>>
    /\ notified = <<>>
    /\ first_lucky = FALSE /\ first_offline = FALSE /\ first_event = FALSE
    /\ current_event = NoEvent /\ timer = 0 /\ next_interval = MIN_INTERVAL
    /\ total_completed = 0 /\ showing_alert = FALSE /\ alert_timer = 0
    /\ auto_earn_accumulator = 0
    /\ auto_save_timer = 0 /\ save_file = NoSave
    /\ raised = "none"
    /\ ret = Ret("init", FALSE, 0)

\* Player() and from_dict(data) on it; the new player replaces the old one
\* and ret.data holds the record
LoadPlayer(data) ==
    /\ SetLedger(player_from_dict(data))
    /\ ret' = [op |-> "from_dict", ok |-> FALSE, n |-> 0, data |-> data]
    /\ UNCHANGED otherVars

NextPlayerRecords == \E data \in PlayerRecords : LoadPlayer(data)

SpecPlayerRecords == InitPlayerRecords /\ [][NextPlayerRecords]_vars

-----------------------------------------------------------------------------
(* Sessions of the game: ticks and left clicks, and the window closed and    *)
(* the program started again at any moment, which ret records                *)

\* The window is closed and the program is started again, as in Relaunch;
\* ret.was records the state the event machine was left in and ret.n the
\* completed-event count of the session that ended
Restart(offline_seconds, new_day, interval) ==
    /\ raised = "none"
    /\ \E data \in { save_data(Core, EventMgr) } :
         /\ save_file' = data
         /\ StartGame(data, offline_seconds, new_day, interval)
    /\ ret' = [op |-> "restart", ok |-> FALSE, n |-> total_completed,
               was |-> IF current_event # NoEvent THEN "active"
                       ELSE IF showing_alert THEN "alert" ELSE "idle"]
    /\ UNCHANGED raised

NextSessions ==
    \/ \E dt \in DtValues :
         \E ev \in StartDraws(TickStarts(dt)), interval \in FinishDraws(TickFinishes(dt)) :
            Tick(dt, ev, interval)
    \/ \E pos \in ClickPlaces, ev \in StartDraws(showing_alert) : ClickAt(pos, ev)
    \/ \E offline_seconds \in OfflineDraws(save_data(Core, EventMgr)),
          new_day \in BOOLEAN, interval \in Intervals :
         Restart(offline_seconds, new_day, interval)

SpecSessions == Init /\ [][NextSessions]_vars

-----------------------------------------------------------------------------
(* A new player who keeps earning and keeps trying to buy lucky_bonus, the   *)
(* upgrade with a max_level                                                  *)

\* Points are earned while the player holds at most this many afterwards.
MaxPurse == 2200

\* what one grant of points brings
PurseGains == { 150, 550, 1100 }

\* player.add_points(amount)
PurseAddPoints(amount) ==
    /\ \E p \in { add_points(Ledger, amount) } :
         /\ p.points <= MaxPurse
         /\ SetLedger(p)
         /\ ret' = Ret("add_points", FALSE, 0)
    /\ UNCHANGED otherVars

NextMaxLevel ==
    \/ \E amount \in PurseGains : PurseAddPoints(amount)
    \/ PlayerPurchase("lucky_bonus")

SpecMaxLevel == InitPlayerRecords /\ [][NextMaxLevel]_vars

-----------------------------------------------------------------------------
(* The auto income of Game.update over frames shorter and longer than a      *)
(* second, for players with several auto rates                               *)

\* Frames are explored while the income due since the start, in thousandths
\* of a point, is at most this.
MaxAutoDue == 3000

\* the frame times, in milliseconds: two frames of a 60 Hz loop, a quarter
\* of a second, and a second and a half
FrameDts == { 16, 17, 250, 1500 }

\* the income due since the start, in thousandths, as ret records it
AutoDue == IF ret.op = "auto_income" THEN ret.n ELSE 0

\* The auto income part of Game.update(dt); ret.n adds up auto_rate * dt
AutoIncomeFrame(dt) ==
    /\ AutoDue + auto_rate_of(upgrade_levels) * dt <= MaxAutoDue
    /\ \E r \in { AutoIncome(Ledger, auto_earn_accumulator, dt) } :
         /\ SetLedger(r.player)
         /\ auto_earn_accumulator' = r.acc
    /\ ret' = Ret("auto_income", FALSE, AutoDue + auto_rate_of(upgrade_levels) * dt)
    /\ UNCHANGED <<charVars, achVars, eventVars, saveVars, raised>>

NextAutoIncome == \E dt \in FrameDts : AutoIncomeFrame(dt)

SpecAutoIncome == InitOffline /\ [][NextAutoIncome]_vars

-----------------------------------------------------------------------------
(* Game._check_achievements for a player close to a click threshold and a    *)
(* points threshold at once                                                  *)

\* Clicks are explored up to this total.
MaxRewardClicks == 11

\* Points are added while the lifetime total stays at or below this.
MaxRewardEarned == 1400

\* the lifetime totals of the players at the start, all points unspent
RewardTotals == { 850, 900, 960 }

\* what one add_points brings
RewardGains == { 40 }

InitRewards ==
    /\ \E total \in RewardTotals : points = total /\ total_points_earned = total
    /\ total_clicks \in { 8, 9 }
    /\ upgrade_levels = NewPlayer.upgrade_levels
    /\ current_id = "hana" /\ unlocked = <<"hana">> /\ affection = NewAffection
    /\ ach_unlocked = <<>>
    /\ notified = <<>>
    /\ first_lucky = FALSE /\ first_offline = FALSE /\ first_event = FALSE
    /\ current_event = NoEvent /\ timer = 0 /\ next_interval = MIN_INTERVAL
    /\ total_completed = 0 /\ showing_alert = FALSE /\ alert_timer = 0
    /\ auto_earn_accumulator = 0
    /\ auto_save_timer = 0 /\ save_file = NoSave
    /\ raised = "none"
    /\ ret = Ret("init", FALSE, 0)

\* player.click()
RewardClick(lucky_roll) ==
    /\ total_clicks < MaxRewardClicks
    /\ \E r \in { click(Ledger, lucky_roll) } :
         /\ SetLedger(r.player)
         /\ ret' = Ret("click", FALSE, r.result)
    /\ UNCHANGED otherVars

\* player.add_points(amount)
RewardAddPoints(amount) ==
    /\ \E p \in { add_points(Ledger, amount) } :
         /\ p.total_points_earned <= MaxRewardEarned
         /\ SetLedger(p)
         /\ ret' = Ret("add_points", FALSE, 0)
    /\ UNCHANGED otherVars

\* game._check_achievements(); ret.ids holds the ids unlocked by the call
CheckAchievements ==
    /\ \E g \in { check_achievements(Core) } :
         /\ SetCore(g)
         /\ ret' = RetIds("check_achievements",
                          SubSeq(g.ach_unlocked, Len(ach_unlocked) + 1,
                                 Len(g.ach_unlocked)))
    /\ UNCHANGED <<eventVars, auto_earn_accumulator, saveVars, raised>>

NextRewards ==
    \/ \E lucky_roll \in { 50 } : RewardClick(lucky_roll)
    \/ \E amount \in RewardGains : RewardAddPoints(amount)
    \/ CheckAchievements

SpecRewards == InitRewards /\ [][NextRewards]_vars

-----------------------------------------------------------------------------
(* Claims *)

\* A step of Game.handle_event in which a left click at pos reaches
\* _on_character_click: no alert is showing, no event target is hit, and pos
\* lies in the character's rectangle.
CharacterClickAt(pos) ==
    /\ raised = "none"
    /\ ~showing_alert
    /\ ~(current_event # NoEvent /\ handle_click(EventMgr, pos).result)
    /\ InCharacterRect(pos)
    /\ ClickAt(pos, NoEvent)

\* C1: from a new game, whatever clicks, ticks, purchase attempts, event
\* resolutions, achievement rewards and offline grants happen, the player's
\* points are never negative.
C1_PointsNeverNegative == points >= 0

\* C1's case: points were earned (an event resolved, achievements paid) and
\* spent (an upgrade bought), and a further purchase is now refused for lack
\* of points.
C1_Witness ==
    /\ first_event /\ ach_unlocked # <<>>
    /\ SumLevels(upgrade_levels) >= 1
    /\ points < get_upgrade_cost("golden_touch")
    /\ points >= 0

\* C2: from a new game, total_points_earned >= points in every reachable
\* state.
C2_EarnedAtLeastPoints == total_points_earned >= points

\* C2's case: after an event reward, a purchase and an offline grant the two
\* differ, and both are positive.
C2_Witness ==
    /\ first_event /\ first_offline
    /\ upgrade_levels["auto_click"] >= 1
    /\ points > 0
    /\ total_points_earned > points

\* C3: no step lowers total_points_earned or total_clicks, and a step that
\* lowers points is a successful purchase (one upgrade level rises by one).
C3_TotalsNeverDecrease ==
    [][ /\ total_points_earned' >= total_points_earned
        /\ total_clicks' >= total_clicks
        /\ (points' < points =>
               \E k \in UpgradeIds :
                  upgrade_levels' = [upgrade_levels EXCEPT ![k] = @ + 1]) ]_vars

\* C3's case: a purchase has lowered the points below what a single reward
\* pays back, while the lifetime total kept every point earned.
C3_Witness ==
    /\ upgrade_levels["golden_touch"] = 1
    /\ total_points_earned >= UPGRADES["golden_touch"].base_cost
    /\ points < UPGRADES["golden_touch"].base_cost

\* The purchase of upgrade_id is to be refused: the points are short of the
\* cost, or the upgrade has a max_level and has reached it.
Refused(upgrade_id) ==
    \/ points < get_upgrade_cost(upgrade_id)
    \/ /\ HasMaxLevel(upgrade_id)
       /\ upgrade_levels[upgrade_id] >= UPGRADES[upgrade_id].max_level

\* C4: purchase_upgrade(id), called when points < cost(id) or when the
\* upgrade has reached its max_level, returns False and leaves points,
\* total_points_earned, total_clicks and every upgrade level unchanged (so a
\* repeated call meets the same state and is refused again).
C4_RefusedPurchaseChangesNothing ==
    [][ \A upgrade_id \in UpgradeIds :
          (Refused(upgrade_id) /\ PlayerPurchase(upgrade_id)) =>
             (~ret'.ok /\ UNCHANGED playerVars) ]_vars

\* C4's case: a purchase was refused at the max_level although the points
\* cover the cost.
C4_Witness ==
    /\ ret = Ret("purchase_upgrade", FALSE, 0)
    /\ upgrade_levels["lucky_bonus"] = UPGRADES["lucky_bonus"].max_level
    /\ points >= get_upgrade_cost("lucky_bonus")

\* C5: a successful purchase_upgrade(id) subtracts exactly the cost at the
\* level held before the purchase, raises the level of id by one and leaves
\* the other levels, total_points_earned and total_clicks unchanged; a new
\* player buying click_power pays 10, reaches level 1, has click power 2 and
\* a next click_power cost of 11.
C5_PurchaseEffect ==
    [][ \A upgrade_id \in UpgradeIds :
          (PlayerPurchase(upgrade_id) /\ ret'.ok) =>
             /\ points' = points - get_upgrade_cost(upgrade_id)
             /\ upgrade_levels' = [upgrade_levels EXCEPT ![upgrade_id] = @ + 1]
             /\ total_points_earned' = total_points_earned
             /\ total_clicks' = total_clicks
             /\ (upgrade_id = "click_power" /\ SumLevels(upgrade_levels) = 0) =>
                   /\ points' = points - 10
                   /\ upgrade_levels'["click_power"] = 1
                   /\ click_power_of(upgrade_levels') = 2
                   /\ upgrade_cost_at("click_power", upgrade_levels'["click_power"]) = 11
      ]_vars

\* C5's case: a new player who held exactly 10 points has bought click_power.
C5_Witness ==
    /\ ret = Ret("purchase_upgrade", TRUE, 0)
    /\ upgrade_levels = [NewPlayer.upgrade_levels EXCEPT !["click_power"] = 1]
    /\ total_points_earned = 10
    /\ points = 0

\* C6: for every upgrade and every level L that is drawn, the cost at level
\* L + 1 is strictly greater than the cost get_upgrade_cost returns at level L.
C6_CostStrictlyIncreasing ==
    \A upgrade_id \in UpgradeIds :
        ret.op = upgrade_id =>
            upgrade_cost_at(upgrade_id, upgrade_levels[upgrade_id] + 1) > ret.n

\* C6's case: the cost of the dearest upgrade was asked at the highest level.
C6_Witness ==
    /\ ret.op = "fairy_army"
    /\ upgrade_levels["fairy_army"] = MaxLevel
    /\ ret.n > UPGRADES["fairy_army"].base_cost

\* C7: get_lucky_chance is 0 at lucky_bonus level 0, 0.10 at level 1 and
\* 0.10 + (level - 1) * 0.05 above that up to the cap of 0.5; it does not
\* decrease with the level, never exceeds 0.5, and is 0.5 at levels 9 and 10.
C7_LuckyChance ==
    ret.op = "get_lucky_chance" =>
        LET level == upgrade_levels["lucky_bonus"]
        IN  /\ level = 0 => ret.n = 0
            /\ level = 1 => ret.n = 10
            /\ level > 1 => ret.n = Min(50, 10 + (level - 1) * 5)
            /\ level \in {9, 10} => ret.n = 50
            /\ ret.n <= 50
            /\ lucky_chance_at(level + 1) >= ret.n

\* C7's case: the chance was asked at the max_level of lucky_bonus.
C7_Witness ==
    /\ ret = Ret("get_lucky_chance", FALSE, 50)
    /\ upgrade_levels["lucky_bonus"] = UPGRADES["lucky_bonus"].max_level

\* C8: a click on the character, made while the click multiplier is m and
\* with lucky draw r, awards click_power * m, doubled exactly when
\* r < lucky_chance; the award is added to points and to
\* total_points_earned, and total_clicks rises by one.
C8_ClickAwards ==
    [][ \A pos \in ClickPlaces :
          CharacterClickAt(pos) =>
             \E lucky_roll \in Rolls :
                LET m == get_click_multiplier(EventMgr)
                    award == IF lucky_roll < get_lucky_chance
                             THEN get_click_power * m * 2
                             ELSE get_click_power * m
                IN  /\ points' = points + award
                    /\ total_points_earned' = total_points_earned + award
                    /\ total_clicks' = total_clicks + 1 ]_vars

\* C9: the click multiplier is 5 exactly while a gold_rush event is active
\* and 1 otherwise, and a click on the character is awarded with that factor:
\* five times the click power (ten times when lucky) during a gold_rush, the
\* click power (twice when lucky) during other events and outside events.
C9_GoldRushClicks ==
    [][ \A pos \in ClickPlaces :
          CharacterClickAt(pos) =>
             LET factor == IF current_event.event_type = "gold_rush"
                           THEN 5 ELSE 1
             IN  /\ get_click_multiplier(EventMgr) = factor
                 /\ points' - points \in { get_click_power * factor,
                                           get_click_power * factor * 2 } ]_vars

\* C10: after any add_affection(amount, target), whatever the amount, the
\* affection of every character lies in [0, 100].
C10_AffectionInRange ==
    \A cid \in CharacterSet :
        /\ affection[cid] >= 0
        /\ affection[cid] <= MAX_AFFECTION * AffUnit

\* C11: get_affection_level(id) returns the highest index i of the level
\* table (minimums 0, 20, 40, 60, 80) whose minimum is <= the affection of
\* id; it is defined for every affection in [0, 100], and an affection equal
\* to a level's minimum gives that level.
C11_AffectionLevel ==
    \A character_id \in LevelTargets :
        ret.op = character_id =>
            LET val == get_affection(affection, current_id, character_id)
            IN  (val >= 0 /\ val <= MAX_AFFECTION * AffUnit) =>
                   /\ ret.n \in 0..(Len(LEVEL_MINS) - 1)
                   /\ LEVEL_MINS[ret.n + 1] * AffUnit <= val
                   /\ \A i \in 0..(Len(LEVEL_MINS) - 1) :
                         LEVEL_MINS[i + 1] * AffUnit <= val => i <= ret.n
                   /\ \A i \in 0..(Len(LEVEL_MINS) - 1) :
                         val = LEVEL_MINS[i + 1] * AffUnit => ret.n = i

\* C11's case: the level was asked for an affection of exactly 40, the
\* minimum of level 2.
C11_Witness ==
    /\ ret = Ret("hana", FALSE, 2)
    /\ affection["hana"] = LEVEL_MINS[3] * AffUnit

C13_SwitchCharacter ==
    [][\A character_id \in SwitchTargets :
          SwitchCharacter(character_id) =>
            /\ IF character_id \in SeqToSet(unlocked)
               THEN ret'.ok /\ current_id' = character_id
               ELSE ~ret'.ok /\ current_id' = current_id
            /\ unlocked' = unlocked
            /\ affection' = affection]_vars

\* a switch to an unlocked character other than the starter has succeeded
C13_Witness ==
    /\ ret = Ret("switch_character", TRUE, 0)
    /\ current_id = "kaede"
    /\ "mizuki" \notin SeqToSet(unlocked)

\* The unlock condition of character cid as settings.CHARACTERS states it,
\* for the present player and achievement_count achievements
ConditionMet(cid, achievement_count) ==
    \/ CHARACTERS[cid].type = "none"
    \/ CHARACTERS[cid].type = "total_points"
          /\ total_points_earned >= CHARACTERS[cid].value
    \/ CHARACTERS[cid].type = "total_clicks"
          /\ total_clicks >= CHARACTERS[cid].value
    \/ CHARACTERS[cid].type = "achievements"
          /\ achievement_count >= CHARACTERS[cid].value

NoDuplicates(seq) == Cardinality(SeqToSet(seq)) = Len(seq)

\* C14: check_unlocks returns exactly the characters that were not unlocked
\* before the call and whose condition holds now, each once; they are added
\* to the unlocked list, which loses nothing and holds no id twice; and the
\* same call made again at once returns nothing.  (An id returned was not
\* unlocked before and is unlocked after, so while the list only grows no id
\* is returned by two calls.)
C14_CheckUnlocks ==
    [][/\ \A achievement_count \in AchievementCounts :
            CheckUnlocks(achievement_count) =>
              /\ SeqToSet(ret'.ids) =
                    { cid \in CharacterSet \ SeqToSet(unlocked) :
                        ConditionMet(cid, achievement_count) }
              /\ NoDuplicates(ret'.ids)
              /\ unlocked' = unlocked \o ret'.ids
              /\ NoDuplicates(unlocked')
              /\ check_unlocks(unlocked', Ledger, achievement_count) = unlocked'
       /\ (\E keys \in SUBSET RecordKeys : LoadCharacters(keys))
            \/ SeqToSet(unlocked) \subseteq SeqToSet(unlocked')]_vars

\* a call has returned two characters at once, and a later one a third
C14_Witness ==
    /\ ret.op = "check_unlocks" /\ ret.n = 1
    /\ Len(unlocked) = 4

\* C15: an achievement once unlocked stays unlocked in every later state,
\* and no id comes back in two batches of check_all: a batch holds only ids
\* that were not unlocked before the call, each once, and they are unlocked
\* after it.
C15_UnlockedOnce ==
    [][/\ SeqToSet(ach_unlocked) \subseteq SeqToSet(ach_unlocked')
       /\ CheckAll =>
            /\ SeqToSet(ret'.ids) \cap SeqToSet(ach_unlocked) = {}
            /\ NoDuplicates(ret'.ids)
            /\ SeqToSet(ach_unlocked') =
                  SeqToSet(ach_unlocked) \cup SeqToSet(ret'.ids)
            /\ NoDuplicates(ach_unlocked')]_vars

\* check_all has returned a batch while earlier achievements whose condition
\* still holds were already unlocked
C15_Witness ==
    /\ ret.op = "check_all" /\ ret.n >= 1
    /\ Len(ach_unlocked) > ret.n
    /\ "click_10" \in SeqToSet(ach_unlocked) \ SeqToSet(ret.ids)

\* The rewards of the achievements this step unlocks
NewRewards ==
    LET fresh(a) == a.id \in SeqToSet(ach_unlocked') \ SeqToSet(ach_unlocked)
    IN  SumRewards(SelectSeq(ACHIEVEMENTS, fresh))

\* What Game.update(dt) earns besides achievement rewards: the auto income
\* and the reward of an event that ends successfully in this tick
TickIncome(dt, ev, interval) ==
    LET inc == AutoIncome(Ledger, auto_earn_accumulator, dt)
        upd == update(EventMgr, dt, ev, interval)
    IN  (inc.player.total_points_earned - total_points_earned)
        + (IF upd.result # NoResult /\ upd.result.success
           THEN EventReward(upd.result.type, inc.player) ELSE 0)

\* The offline earnings Game._load_game grants for the record of the present
\* state
OfflineIncome(offline_seconds) ==
    Max(0, calculate_offline_earnings(Ledger, offline_seconds))

\* The price a step pays that raises the level of an upgrade
PricePaid ==
    LET bought == CHOOSE k \in UpgradeIds : upgrade_levels'[k] # upgrade_levels[k]
    IN  get_upgrade_cost(bought)

\* C16: over any run of the game the reward of each achievement is added to
\* the points exactly once, in the step that unlocks it.  A step that buys an
\* upgrade raises the points earned by exactly the rewards of the
\* achievements it unlocks (and the points by that less the price); any other
\* step that changes the points earned or the unlocked achievements is a
\* tick, which earns its auto income and event reward plus the rewards of the
\* achievements it unlocks, or the start of a new session, which unlocks
\* nothing and earns the offline earnings; every other step leaves the
\* points alone.
C16_RewardOnce ==
    [][IF upgrade_levels' # upgrade_levels
       THEN /\ total_points_earned' - total_points_earned = NewRewards
            /\ points' - points = NewRewards - PricePaid
       ELSE IF UNCHANGED <<total_points_earned, ach_unlocked>>
       THEN UNCHANGED points
       ELSE /\ points' - points = total_points_earned' - total_points_earned
            /\ \/ \E dt \in DtValues :
                    \E ev \in StartDraws(TickStarts(dt)),
                       interval \in FinishDraws(TickFinishes(dt)) :
                      /\ Tick(dt, ev, interval)
                      /\ total_points_earned' - total_points_earned =
                            TickIncome(dt, ev, interval) + NewRewards
               \/ \E offline_seconds \in OfflineDraws(save_data(Core, EventMgr)),
                     new_day \in BOOLEAN, interval \in Intervals :
                      /\ Relaunch(offline_seconds, new_day, interval)
                      /\ NewRewards = 0
                      /\ total_points_earned' - total_points_earned =
                            OfflineIncome(offline_seconds)]_vars

\* two achievements were unlocked by different steps, and a later purchase
\* evaluated the achievements again
C16_Witness ==
    /\ { "event_first", "upgrade_first" } \subseteq SeqToSet(ach_unlocked)
    /\ SumLevels(upgrade_levels) = 2

\* C17: the achievements are evaluated again after every action that changes
\* the state, so between two actions no achievement whose condition holds is
\* still locked.
C17_NothingPending ==
    raised = "none" =>
      \A i \in 1..Len(ACHIEVEMENTS) :
         evaluate(ACHIEVEMENTS[i], Ledger, affection, Core.flags)
            => ACHIEVEMENTS[i].id \in SeqToSet(ach_unlocked)

\* The three states of the event machine
Idle == current_event = NoEvent /\ ~showing_alert
Alert == current_event = NoEvent /\ showing_alert
Active == current_event # NoEvent

\* C18: in Idle the timer stays below next_interval and grows by dt with each
\* update; the update that brings it to next_interval or past it moves the
\* machine to Alert, with the alert timer at 0 and no event started; and the
\* machine goes from Idle to Alert in no other step.
C18_IdleToAlert ==
    [][/\ Idle => timer < next_interval
       /\ \A dt \in EventDts :
            (Idle /\ EventUpdate(dt, NoEvent, next_interval)) =>
               IF timer + dt >= next_interval
               THEN showing_alert' /\ alert_timer' = 0 /\ current_event' = NoEvent
               ELSE ~showing_alert' /\ current_event' = NoEvent
                    /\ timer' = timer + dt
       /\ (Idle /\ showing_alert') =>
            /\ ret'.op = "update"
            /\ \E dt \in EventDts : timer + dt >= next_interval]_vars

\* an update has just moved the machine from Idle to Alert
C18_Witness ==
    /\ ret.op = "update" /\ showing_alert /\ alert_timer = 0
    /\ current_event = NoEvent

\* A newly started event: one of the four templates, nothing elapsed, nothing
\* collected
Started(ev) ==
    /\ ev # NoEvent
    /\ ev.event_type \in { "gold_rush", "shooting_star", "flower_field",
                            "rainbow_visitor" }
    /\ ev.elapsed = 0 /\ ev.collected = 0

\* C19: from Alert the machine moves to Active, with a newly started event,
\* at once when dismiss_alert is called and in the first update that brings
\* the alert timer past ALERT_TIMEOUT; no other step leaves Alert; and
\* dismiss_alert outside Alert changes nothing.
C19_AlertToActive ==
    [][/\ Alert => alert_timer <= ALERT_TIMEOUT
       /\ \A ev \in StartDraws(showing_alert) :
            EventDismissAlert(ev) =>
               IF Alert THEN ~showing_alert' /\ Started(current_event')
               ELSE UNCHANGED eventVars
       /\ \A dt \in EventDts : \A ev \in StartDraws(TickStarts(dt)) :
            (Alert /\ EventUpdate(dt, ev, next_interval)) =>
               IF alert_timer + dt > ALERT_TIMEOUT
               THEN ~showing_alert' /\ Started(current_event')
               ELSE showing_alert' /\ current_event' = NoEvent
                    /\ alert_timer' = alert_timer + dt
       /\ (Alert /\ ~Alert') =>
            /\ ~showing_alert' /\ Started(current_event')
            /\ \/ ret'.op = "dismiss_alert"
               \/ /\ ret'.op = "update"
                  /\ \E dt \in EventDts : alert_timer + dt > ALERT_TIMEOUT]_vars

\* an update has brought the alert timer past ALERT_TIMEOUT, by half of it at
\* most, and started an event
C19_Witness ==
    /\ ret.op = "update" /\ Active /\ current_event.elapsed = 0
    /\ alert_timer > ALERT_TIMEOUT
    /\ alert_timer <= ALERT_TIMEOUT + ALERT_TIMEOUT \div 2

\* C20: an Active event is resolved only by an update that brings elapsed to
\* the duration or past it: handle_click never ends the event, not even when
\* it collects the last required target, and an update short of the duration
\* keeps the event and returns no result.
C20_ResolvedAtExpiry ==
    [][/\ Active => current_event.elapsed < current_event.duration
       /\ \A pos \in ClickPlaces :
            (Active /\ EventHandleClick(pos)) =>
               /\ Active'
               /\ current_event'.event_type = current_event.event_type
               /\ current_event'.elapsed = current_event.elapsed
               /\ UNCHANGED <<total_completed, timer, next_interval>>
       /\ \A dt \in EventDts : \A interval \in FinishDraws(TickFinishes(dt)) :
            (Active /\ EventUpdate(dt, NoEvent, interval)) =>
               IF current_event.elapsed + dt >= current_event.duration
               THEN ~Active' /\ ret'.n = 1
               ELSE Active' /\ ret'.n = 0
                    /\ current_event'.elapsed = current_event.elapsed + dt
       /\ (Active /\ ~Active') =>
            /\ ret' = Ret("update", ret'.ok, 1)
            /\ \E dt \in EventDts :
                  current_event.elapsed + dt >= current_event.duration]_vars

\* the last required target has been collected and the event is still Active
C20_Witness ==
    /\ Active /\ ret = Ret("handle_click", TRUE, 0)
    /\ current_event.required > 0
    /\ current_event.collected >= current_event.required

\* C21: when an event resolves, the success reported is true exactly when the
\* event is gold_rush or as many targets were collected as required; a
\* target event short of its required targets resolves as a failure.
C21_SuccessAtResolution ==
    [][(Active /\ ~Active') =>
          /\ ret'.op = "update" /\ ret'.n = 1
          /\ ret'.ok = (\/ current_event.event_type = "gold_rush"
                        \/ current_event.collected >= current_event.required)]_vars

\* an event has resolved as a failure
C21_Witness ==
    /\ ret = Ret("update", FALSE, 1)
    /\ Idle /\ total_completed = 0

\* C22: the count of completed events grows by exactly 1 in a resolution
\* that reports success and is left alone by a failed resolution and by
\* every other call.
C22_CompletedCount ==
    [][total_completed' =
          total_completed
          + (IF Active /\ ~Active' /\ ret'.ok THEN 1 ELSE 0)]_vars

\* an event has resolved with success and has been counted
C22_Witness ==
    /\ ret = Ret("update", TRUE, 1)
    /\ total_completed = 1

\* C23: the update that resolves an event leaves the machine in Idle, with
\* no event, no alert, the countdown at 0 and a next_interval within
\* [MIN_INTERVAL, MAX_INTERVAL]; next_interval is within that range in every
\* state.
C23_BackToIdle ==
    [][/\ next_interval \in MIN_INTERVAL..MAX_INTERVAL
       /\ next_interval' \in MIN_INTERVAL..MAX_INTERVAL
       /\ (Active /\ ~Active') =>
             /\ current_event' = NoEvent /\ ~showing_alert'
             /\ timer' = 0]_vars

\* an event has just resolved and the longest interval was drawn
C23_Witness ==
    /\ ret.op = "update" /\ ret.n = 1
    /\ Idle /\ timer = 0
    /\ next_interval = MAX_INTERVAL

\* Whether the event now running has met what its success asks for
Succeeds ==
    \/ current_event.event_type = "gold_rush"
    \/ current_event.collected >= current_event.required

\* The points a successful resolution of the running event is to award
DueReward ==
    CASE current_event.event_type = "shooting_star" -> get_click_power * 50
      [] current_event.event_type = "flower_field"  -> get_click_power * 30
      [] OTHER                                      -> 0

\* The affection a successful resolution of the running event is to add
DueAffection ==
    GAIN_event_success
    + (IF current_event.event_type = "rainbow_visitor"
       THEN GAIN_rainbow_visitor ELSE 0)

\* C24: a tick that resolves an event with success awards click power x 50
\* for shooting_star, click power x 30 for flower_field and nothing for
\* gold_rush and rainbow_visitor, and adds to the current character the
\* event-success affection, and for rainbow_visitor a further fixed bonus;
\* a tick that resolves an event as a failure awards no points and no
\* affection.  (The tick's auto income and the rewards of the achievements
\* it unlocks are counted apart.)
C24_EventReward ==
    [][(Active /\ current_event' = NoEvent) =>
          \A dt \in DtValues :
             Tick(dt, NoEvent, next_interval') =>
                /\ points' - points =
                      (AutoIncome(Ledger, auto_earn_accumulator, dt).player.points
                         - points)
                      + (IF Succeeds THEN DueReward ELSE 0) + NewRewards
                /\ affection' =
                      [affection EXCEPT ![current_id] =
                          IF Succeeds
                          THEN Min(MAX_AFFECTION * AffUnit, @ + DueAffection)
                          ELSE @]]_vars

\* a shooting_star has just resolved with success for a player without
\* upgrades: 50 points on top of the 500 of event_first
C24_Witness ==
    /\ Idle /\ timer = 0 /\ total_completed = 1
    /\ SumLevels(upgrade_levels) = 0
    /\ total_points_earned = 550

\* C25: every tick that resolves an event, with success or without, leaves
\* the first-event flag set; none of the three flags first_lucky,
\* first_offline, first_event is ever cleared; and a mark_ call for a flag
\* that is already set changes nothing.
C25_FlagsStay ==
    [][/\ first_lucky => first_lucky'
       /\ first_offline => first_offline'
       /\ first_event => first_event'
       /\ (/\ Active /\ current_event' = NoEvent
           /\ \E dt \in DtValues : Tick(dt, NoEvent, next_interval'))
            => first_event'
       /\ \A flag \in { "lucky", "offline", "event" } :
            (/\ ret'.op = "mark" /\ Mark(flag)
             /\ Core.flags[flag]) => UNCHANGED achVars]_vars

\* the first event has resolved as a failure and the flag is set
C25_Witness ==
    /\ first_event /\ total_completed = 0
    /\ Idle /\ timer = 0
    /\ "event_first" \in SeqToSet(ach_unlocked)

\* The live targets of the running event that lie within the hit radius of
\* pos, by their place in the spawn order
InRange(pos) ==
    { i \in 1..Len(current_event.targets) :
        /\ current_event.targets[i].alive
        /\ (pos[1] - current_event.targets[i].x) * (pos[1] - current_event.targets[i].x)
           + (pos[2] - current_event.targets[i].y) * (pos[2] - current_event.targets[i].y)
           < HIT_RADIUS * HIT_RADIUS }

\* C26: during an Active target event a click consumes the first live
\* target, in spawn order, within the hit radius of the click point: that
\* target alone becomes dead, collected grows by 1 and the call returns
\* True; a click in range of no live target, or with no event Active,
\* changes nothing and returns False.
C26_ClickConsumesFirst ==
    [][\A pos \in SpreadClicks :
          EventHandleClick(pos) =>
             IF Active /\ InRange(pos) # {}
             THEN LET first == CHOOSE i \in InRange(pos) :
                                  \A j \in InRange(pos) : i <= j
                  IN  /\ ret'.ok
                      /\ current_event'.collected = current_event.collected + 1
                      /\ current_event'.targets =
                            [current_event.targets EXCEPT ![first].alive = FALSE]
                      /\ current_event'.elapsed = current_event.elapsed
             ELSE ~ret'.ok /\ UNCHANGED eventVars]_vars

\* a click in range of two live targets has consumed the first of them only
C26_Witness ==
    /\ ret = Ret("handle_click", TRUE, 0) /\ Active
    /\ current_event.collected = 1
    /\ \E i, j \in 1..Len(current_event.targets) :
          /\ i < j
          /\ ~current_event.targets[i].alive /\ current_event.targets[j].alive
          /\ current_event.targets[i].x = 600 /\ current_event.targets[j].x = 620

\* Player.get_auto_rate as settings.UPGRADES states it: one point a second
\* for each level of auto_click, ten for each level of fairy_army
RatePerSecond == upgrade_levels["auto_click"] * 1 + upgrade_levels["fairy_army"] * 10

\* C27: the offline earnings are auto_rate x min(seconds away, 86400) x 0.5:
\* at auto_rate 2, ten hours give 36000 and thirty hours the capped 86400,
\* and no absence of more than 24 hours gives more than 24 hours do.
C27_OfflineEarnings ==
    ret.op = "offline" =>
      /\ 2 * ret.n = RatePerSecond * (IF ret.seconds < 86400 THEN ret.seconds ELSE 86400)
      /\ (RatePerSecond = 2 /\ ret.seconds = 10 * 3600) => ret.n = 36000
      /\ (RatePerSecond = 2 /\ ret.seconds = 30 * 3600) => ret.n = 86400
      /\ ret.seconds > 86400 => 2 * ret.n = RatePerSecond * 86400

\* thirty hours away at auto_rate 2
C27_Witness ==
    /\ RatePerSecond = 2
    /\ ret.op = "offline" /\ ret.seconds = 30 * 3600 /\ ret.n = 86400

\* Twice the offline earnings of the present player for a "last_played" entry:
\* nothing for a value that is no timestamp, otherwise the auto rate times
\* the seconds away, at most 86400 of them
TwiceEarned(last_played) ==
    IF last_played.iso
    THEN RatePerSecond * (IF last_played.seconds_ago < 86400
                          THEN last_played.seconds_ago ELSE 86400)
    ELSE 0

\* C28: a load adds the offline earnings to points and total_points_earned
\* and sets the first-offline flag exactly when the earnings are positive;
\* when the timestamp cannot be parsed, or the earnings are zero or negative
\* (auto rate 0, or a timestamp in the future), points, total_points_earned
\* and the flag stay as the record has them.
C28_OfflineGrant ==
    [][ret'.op = "load" =>
         LET twice == TwiceEarned(ret'.last_played)
         IN  IF twice > 0
             THEN /\ 2 * points' = 2 * points + twice
                  /\ 2 * total_points_earned' = 2 * total_points_earned + twice
                  /\ first_offline'
             ELSE UNCHANGED <<points, total_points_earned, first_offline>>
       ]_vars

\* a load after one minute away at auto rate 2 has granted 60 points to a
\* player who had none
C28_Witness ==
    /\ ret.op = "load" /\ ret.last_played = Timestamp(60)
    /\ RatePerSecond = 2
    /\ points = 60 /\ first_offline

\* C29: writing the player, character, achievement and event state to a
\* record and loading the record into new objects gives back every persisted
\* field (points, total_points_earned, total_clicks, upgrade levels, current
\* character, unlocked characters, affection, unlocked and notified
\* achievements, the three flags, the completed-event count), and writing
\* again gives the same record.
C29_RoundTrip ==
    [][ret'.op = "round_trip" =>
         /\ UNCHANGED <<playerVars, charVars, achVars, total_completed>>
         /\ save_data(Core, EventMgr)' = ret'.data
       ]_vars

\* a round trip of a game with a notified achievement, a second character
\* unlocked and current, bought upgrades and a completed event
C29_Witness ==
    /\ ret.op = "round_trip"
    /\ notified = <<"click_10">> /\ ach_unlocked = <<"click_10">>
    /\ current_id = "yuki" /\ unlocked = <<"hana", "yuki">>
    /\ affection["hana"] = 250
    /\ upgrade_levels["auto_click"] = 2 /\ total_clicks = 3
    /\ first_lucky /\ first_offline /\ first_event
    /\ total_completed = 1

\* the value a record holds under key, or 0 when it has no such key
SavedOrZero(data, key) == IF key \in DOMAIN data THEN data[key] ELSE 0

\* C30: a record loaded into a new player leaves out the upgrade ids the
\* configuration does not have, gives level 0 to every configured id the
\* record does not hold and the saved level to the others; points,
\* total_points_earned and total_clicks missing from the record are 0.
C30_PlayerDefaults ==
    ret.op = "from_dict" =>
      /\ DOMAIN upgrade_levels = UpgradeIds
      /\ \A id \in UpgradeIds :
            upgrade_levels[id] =
               IF "upgrade_levels" \in DOMAIN ret.data
               THEN SavedOrZero(ret.data.upgrade_levels, id)
               ELSE 0
      /\ points = SavedOrZero(ret.data, "points")
      /\ total_points_earned = SavedOrZero(ret.data, "total_points_earned")
      /\ total_clicks = SavedOrZero(ret.data, "total_clicks")

\* a record without points and total_clicks, whose level map holds an
\* unknown id and auto_click but not click_power, has been loaded
C30_Witness ==
    /\ ret.op = "from_dict"
    /\ DOMAIN ret.data = { "total_points_earned", "upgrade_levels" }
    /\ DOMAIN ret.data.upgrade_levels = { "auto_click", "mystery_boost" }
    /\ upgrade_levels["auto_click"] = 2 /\ upgrade_levels["click_power"] = 0
    /\ points = 0 /\ total_points_earned = 40 /\ total_clicks = 0

\* the step is a restart of the program
RestartStep ==
    /\ ret'.op = "restart"
    /\ auto_save_timer' = 0 /\ auto_earn_accumulator' = 0
    /\ \E offline_seconds \in OfflineDraws(save_data(Core, EventMgr)),
          new_day \in BOOLEAN, interval \in Intervals :
         Restart(offline_seconds, new_day, interval)

\* C31: a save taken while an alert shows or an event is Active, loaded into
\* a new session, gives an event machine in Idle with no current event, no
\* alert and timer 0, whose completed-event count is the saved one; the
\* abandoned event grants no reward and is not counted as completed.
C31_EventAbandoned ==
    [][(~Idle /\ RestartStep) =>
         /\ Idle' /\ current_event' = NoEvent /\ ~showing_alert'
         /\ timer' = 0
         /\ total_completed' = total_completed
         /\ UNCHANGED <<points, total_points_earned>>
         /\ affection' \in { affection,
                              add_affection(affection, current_id, GAIN_daily_login, "") }
       ]_vars

\* the program was restarted during an Active event, after one event had
\* been completed
C31_Witness ==
    /\ ret.op = "restart" /\ ret.was = "active" /\ ret.n = 1
    /\ Idle /\ timer = 0 /\ total_completed = 1
    /\ auto_save_timer = 0

\* C32: from a new game the level of an upgrade that has a max_level
\* (lucky_bonus, 10) never exceeds it, whatever purchases are attempted and
\* however many points the player holds.
C32_LevelAtMostMax ==
    /\ upgrade_levels["lucky_bonus"] <= 10
    /\ \A upgrade_id \in UpgradeIds :
          HasMaxLevel(upgrade_id) =>
             upgrade_levels[upgrade_id] <= UPGRADES[upgrade_id].max_level

\* a player who climbed from level 0 to level 10 holds more than the next
\* level would cost, and the purchase has been refused
C32_Witness ==
    /\ upgrade_levels["lucky_bonus"] = 10
    /\ points > upgrade_cost_at("lucky_bonus", 10)
    /\ total_points_earned > CostSum("lucky_bonus", 10)
    /\ ret.op = "purchase_upgrade" /\ ~ret.ok

\* C33: the event machine is in exactly one of Idle, Alert and Active: no
\* alert shows while an event is Active; the idle countdown does not advance
\* in Alert or Active (it is only set to 0 when an event resolves), so no
\* new alert is raised before the current event has resolved.
C33_OneStateAtATime ==
    /\ [](~(showing_alert /\ current_event # NoEvent))
    /\ [][ /\ (showing_alert \/ current_event # NoEvent) =>
                 \/ timer' = timer
                 \/ current_event # NoEvent /\ Idle' /\ timer' = 0
           /\ current_event # NoEvent => ~showing_alert'
          ]_vars

\* an update during an Active event, which an alert preceded, has advanced
\* the event and left the countdown at 0
C33_Witness ==
    /\ ret.op = "update"
    /\ current_event # NoEvent /\ current_event.elapsed > 0
    /\ ~showing_alert /\ timer = 0 /\ alert_timer > 0

\* the indices of the targets of an event that have been consumed
Dead(ev) == { i \in 1..Len(ev.targets) : ~ev.targets[i].alive }

\* C34: while an event is Active its collected count is the number of its
\* dead targets and lies between 0 and required; a dead target is not
\* consumed again (it stays dead, and the count grows only by the targets
\* that die); a gold_rush has no targets and its count stays 0 whatever
\* clicks arrive.
C34_CollectedCountsDead ==
    /\ [](current_event # NoEvent =>
            /\ current_event.collected = Cardinality(Dead(current_event))
            /\ 0 <= current_event.collected
            /\ current_event.collected <= current_event.required
            /\ current_event.event_type = "gold_rush" =>
                   current_event.targets = <<>> /\ current_event.collected = 0)
    /\ [][(current_event # NoEvent /\ current_event' # NoEvent) =>
            /\ Dead(current_event) \subseteq Dead(current_event')
            /\ Cardinality(Dead(current_event') \ Dead(current_event)) <= 1
            /\ current_event'.collected - current_event.collected =
                  Cardinality(Dead(current_event') \ Dead(current_event))
          ]_vars

\* every target of a shooting_star event is dead, and one more click on
\* their place has been refused
C34_Witness ==
    /\ current_event # NoEvent /\ current_event.event_type = "shooting_star"
    /\ Cardinality(Dead(current_event)) = 3 /\ current_event.collected = 3
    /\ ret = Ret("handle_click", FALSE, 0)

\* C35: while updates with a positive dt keep arriving, an idle machine
\* eventually shows an alert, an alert is eventually followed by an Active
\* event whether or not the player acknowledges it, and an Active event is
\* eventually resolved and followed by Idle (as long as the completed count
\* explored allows the resolution); an event is resolved by one update, which
\* returns its result and leaves the machine Idle.
C35_MachineProgresses ==
    /\ Idle ~> Alert
    /\ Alert ~> Active
    /\ (Active /\ total_completed < MaxCompleted) ~> Idle
    /\ [][ /\ (Active /\ ~Active') => (Idle' /\ ret' = Ret("update", ret'.ok, 1))
           /\ (ret'.op = "update" /\ ret'.n = 1) => (Active /\ Idle')
          ]_vars

\* an alert that was never acknowledged has timed out and its event has
\* been resolved by a later update
C35_Witness ==
    /\ ret.op = "update" /\ ret.n = 1
    /\ Idle /\ timer = 0
    /\ alert_timer > ALERT_TIMEOUT

\* C36: while an event is Active no upgrade is bought: a click on an upgrade
\* button leaves points and every upgrade level as they are, and no step
\* taken during the event changes a level or lowers the points; purchases
\* happen only when no event is running.
C36_NoPurchaseDuringEvent ==
    [][current_event # NoEvent =>
         /\ upgrade_levels' = upgrade_levels
         /\ points' >= points
         /\ \A upgrade_id \in UpgradeIds :
               ClickUpgradeButton(upgrade_id, NoEvent) =>
                  UNCHANGED <<points, upgrade_levels>>
      ]_vars

\* an event is Active while the player, who bought an upgrade after an
\* earlier event, holds the price of another one
C36_Witness ==
    /\ current_event # NoEvent
    /\ first_event /\ SumLevels(upgrade_levels) = 1
    /\ can_afford_upgrade(Ledger, "click_power")

\* the step is a left click at pos that dismisses the alert
AlertClickAt(pos) == showing_alert /\ ClickAt(pos, current_event')

\* the step is a left click at pos that consumes a target of the event
TargetClickAt(pos) ==
    /\ ~showing_alert /\ current_event # NoEvent
    /\ handle_click(EventMgr, pos).result
    /\ ClickAt(pos, NoEvent)

\* C37: a left click that consumes an event target, and a left click made
\* while an alert shows, is handled as that event action only: the character
\* click handler is not entered, and points, total_points_earned,
\* total_clicks and affection are unchanged.
C37_EventClickOnly ==
    [][ \A pos \in ClickPlaces :
          (raised = "none" /\ (AlertClickAt(pos) \/ TargetClickAt(pos))) =>
             /\ UNCHANGED <<points, total_points_earned, total_clicks, affection>>
             /\ raised' = "none"
      ]_vars

\* a click inside the character's rectangle has consumed a target of an
\* event that a click on the alert had started
C37_Witness ==
    /\ current_event # NoEvent /\ current_event.collected = 1
    /\ alert_timer = 0 /\ timer = 0
    /\ \E i \in Dead(current_event) :
          InCharacterRect(<<current_event.targets[i].x, current_event.targets[i].y>>)
    /\ raised = "none" /\ total_clicks = 0

\* C38: auto income is granted in whole points: a tick adds auto_rate * dt
\* to the accumulator and moves its whole part to the points, so after every
\* tick the accumulator lies in [0, 1) and the points granted plus the
\* accumulator are the sum of auto_rate * dt over all ticks; at auto rate 0
\* a tick grants nothing.  (Accumulator and sum in thousandths of a point.)
C38_WholePointsOnly ==
    /\ [](ret.op = "auto_income" =>
            /\ 0 <= auto_earn_accumulator /\ auto_earn_accumulator < 1000
            /\ points * 1000 + auto_earn_accumulator = ret.n
            /\ total_points_earned = points
            /\ RatePerSecond = 0 => points = 0 /\ auto_earn_accumulator = 0)
    /\ [][ret'.op = "auto_income" =>
            \E dt \in FrameDts :
               LET sum == auto_earn_accumulator + RatePerSecond * dt
               IN  /\ points' = points + sum \div 1000
                   /\ auto_earn_accumulator' = sum % 1000
          ]_vars

\* at auto rate 1, frames of 16 ms and 17 ms have added up to more than two
\* points, of which two were granted
C38_Witness ==
    /\ ret.op = "auto_income" /\ RatePerSecond = 1
    /\ points = 2 /\ auto_earn_accumulator > 0
    /\ ret.n = 2000 + auto_earn_accumulator
    /\ ret.n % 250 \notin { 0, 16, 17 }

\* the achievements still locked whose condition holds for the ledger p
Due(p) ==
    { i \in 1..Len(ACHIEVEMENTS) :
        /\ ACHIEVEMENTS[i].id \notin SeqToSet(ach_unlocked)
        /\ evaluate(ACHIEVEMENTS[i], p, affection, Core.flags) }

RECURSIVE RewardsOf(_)
\* the rewards of a set of table entries, added up
RewardsOf(entries) ==
    IF entries = {} THEN 0
    ELSE LET i == CHOOSE i \in entries : TRUE
         IN  ACHIEVEMENTS[i].reward + RewardsOf(entries \ {i})

\* C39: one achievement check evaluates every condition against the state
\* before any reward of the batch is granted and passes over the table once:
\* it unlocks exactly the locked achievements whose condition held before the
\* call, each once, and adds their rewards; an achievement whose threshold
\* is reached only through those rewards stays locked in this check and is
\* due in the next.
C39_BatchBeforeRewards ==
    [][ret'.op = "check_achievements" =>
         /\ SeqToSet(ret'.ids) = { ACHIEVEMENTS[i].id : i \in Due(Ledger) }
         /\ ach_unlocked' = ach_unlocked \o ret'.ids
         /\ NoDuplicates(ach_unlocked')
         /\ points' = points + RewardsOf(Due(Ledger))
         /\ total_points_earned' = total_points_earned + RewardsOf(Due(Ledger))
         /\ \A i \in 1..Len(ACHIEVEMENTS) :
               (i \notin Due(Ledger) /\ i \in Due(Ledger')) =>
                  /\ ACHIEVEMENTS[i].id \notin SeqToSet(ach_unlocked')
                  /\ evaluate(ACHIEVEMENTS[i], Ledger', affection', Core.flags')
      ]_vars

\* the reward of click_10 carried the lifetime total past 1000 in one check,
\* which left points_1000 locked; the next check has unlocked it
C39_Witness ==
    /\ ret = RetIds("check_achievements", <<"points_1000">>)
    /\ ach_unlocked = <<"click_10", "points_1000">>
    /\ total_points_earned - 300 < 1000

=============================================================================
